---- MODULE Spec2Model ----
(***************************************************************************)
(* Personal job-search CRM (src/app.py): a Streamlit script over four      *)
(* PostgreSQL tables.  Every user interaction re-runs the script from the  *)
(* top; st.session_state and the keyed widget values survive between runs, *)
(* st.rerun() restarts the script at once.  One action below is one user   *)
(* interaction: the run it triggers, its handler, and the re-run that the  *)
(* handler asks for.                                                       *)
(***************************************************************************)
EXTENDS Integers, Sequences, FiniteSets, TLC

\* Python's None for ids and dates (session state starts at None; row ids
\* come from a serial and start at 1).
None == 0

\* SQL NULL in a text column (tasks.priority), distinct from the empty string.
NULL == "NULL"

\* ---------------------------------------------------------------- bounds
\* Rows ever inserted, over all four tables, in one behaviour.
MaxRows == 2

\* Jobs, or tasks, stored when the Dashboard queries run.
MaxQueryRows == 2

\* ------------------------------------------------------- fixed vocabulary
Kinds == {"company", "job", "recruiter", "task"}

page_options ==
    {"Dashboard", "Job Tracker", "Recruiter Tracker", "Company Tracker", "Task Manager"}

job_status_options == <<"Not Applied", "Applied", "Interviewing", "Rejected", "Offer">>
task_status_options == <<"Open", "In Progress", "Awaiting Feedback", "Completed", "Cancelled">>
task_priority_options == <<"---", "Low", "Medium", "High">>

Range(seq) == {seq[i] : i \in DOMAIN seq}

SelectCompany == "--- Select Company ---"
SelectJob == "--- Select Job ---"
SelectRecruiter == "--- Select Recruiter ---"
NoAgency == "--- No Specific Agency ---"

\* The page whose Edit/Delete tab works on kind k.
PageOf(k) ==
    CASE k = "company" -> "Company Tracker"
      [] k = "job" -> "Job Tracker"
      [] k = "recruiter" -> "Recruiter Tracker"
      [] k = "task" -> "Task Manager"

\* ------------------------------------------------------------- database
\* db = [companies, jobs, recruiters, tasks: sets of rows; seq: the serial of
\* each table; clock: the value the next created_at takes].
Table(db, k) ==
    CASE k = "company" -> db.companies
      [] k = "job" -> db.jobs
      [] k = "recruiter" -> db.recruiters
      [] k = "task" -> db.tasks

RowId(k, r) ==
    CASE k = "company" -> r.company_id
      [] k = "job" -> r.job_id
      [] k = "recruiter" -> r.recruiter_id
      [] k = "task" -> r.task_id

Ids(db, k) == {RowId(k, r) : r \in Table(db, k)}

Inserted(db) == db.seq["company"] + db.seq["job"] + db.seq["recruiter"] + db.seq["task"]

EmptyDb ==
    [companies |-> {}, jobs |-> {}, recruiters |-> {}, tasks |-> {},
     seq |-> [k \in Kinds |-> 0], clock |-> 0]

\* The result of a write function: its return value, the database it leaves,
\* the write statements it executed, the transactions it committed and the
\* st.error text it showed ("" for none).
Refused(db, msg) == [ok |-> FALSE, db |-> db, stmts |-> 0, commits |-> 0, err |-> msg]
RolledBack(db, msg) == [ok |-> FALSE, db |-> db, stmts |-> 1, commits |-> 0, err |-> msg]
Committed(db2) == [ok |-> TRUE, db |-> db2, stmts |-> 1, commits |-> 1, err |-> ""]

\* app.py 182-192.  fail: the INSERT or the commit raises (rollback).
add_new_company(db, name, sector_val, web, notes_val, src, fail) ==
    IF name = "" THEN Refused(db, "Company name required")
    ELSE IF fail THEN RolledBack(db, "DB Error (add company)")
    ELSE Committed(
        [db EXCEPT
            !.companies = @ \cup {[company_id |-> db.seq["company"] + 1,
                                   company_name |-> name, sector |-> sector_val,
                                   website |-> web, notes |-> notes_val, source |-> src,
                                   created_at |-> db.clock + 1]},
            !.seq["company"] = @ + 1,
            !.clock = @ + 1])

\* app.py 96-107.
add_new_job(db, title, comp_id, loc, stat, url, notes_val, date_f, fail) ==
    IF title = "" THEN Refused(db, "Job Title required.")
    ELSE IF comp_id = None THEN Refused(db, "Company required.")
    ELSE IF fail THEN RolledBack(db, "DB Error (add job)")
    ELSE Committed(
        [db EXCEPT
            !.jobs = @ \cup {[job_id |-> db.seq["job"] + 1, job_title |-> title,
                              company_id |-> comp_id, location |-> loc, status |-> stat,
                              job_url |-> url, notes |-> notes_val, date_found |-> date_f,
                              created_at |-> db.clock + 1]},
            !.seq["job"] = @ + 1,
            !.clock = @ + 1])

\* app.py 109-120.  An UPDATE whose WHERE matches no row changes nothing and
\* still commits.
update_job_details(db, j_id, title, comp_id, loc, stat, url, notes_val, date_f, fail) ==
    IF j_id = None \/ title = "" \/ stat = "" THEN Refused(db, "Job ID, Title, Status required for update.")
    ELSE IF comp_id = None THEN Refused(db, "Company required for update.")
    ELSE IF fail THEN RolledBack(db, "DB Error (update job)")
    ELSE Committed(
        [db EXCEPT !.jobs =
            {IF r.job_id = j_id
                THEN [r EXCEPT !.job_title = title, !.company_id = comp_id,
                               !.location = loc, !.status = stat, !.job_url = url,
                               !.notes = notes_val, !.date_found = date_f]
                ELSE r : r \in @}])

\* A delete that takes the tasks linked to the job with it.
delete_job_record_cascade(db, job_id, fail) ==
    IF job_id = None THEN Refused(db, "Job ID required for deletion.")
    ELSE IF fail THEN RolledBack(db, "DB Error (delete job)")
    ELSE Committed([db EXCEPT !.jobs = {r \in @ : r.job_id # job_id},
                              !.tasks = {t \in @ : t.job_id # job_id}])

\* A delete that returns True with the row still stored.
delete_job_record_kept(db, job_id, fail) ==
    IF job_id = None THEN Refused(db, "Job ID required for deletion.")
    ELSE IF fail THEN RolledBack(db, "DB Error (delete job)")
    ELSE Committed(db)

\* app.py 122-129.  A DELETE that matches no row still commits and returns True.
delete_job_record(db, job_id, fail) ==
    IF job_id = None THEN Refused(db, "Job ID required for deletion.")
    ELSE IF fail THEN RolledBack(db, "DB Error (delete job)")
    ELSE Committed([db EXCEPT !.jobs = {r \in @ : r.job_id # job_id}])

\* An INSERT that leaves the notes and first_contact_date columns out.
add_new_recruiter_short(db, name, agency_id, contact, notes_val, date_f, fail) ==
    IF name = "" THEN Refused(db, "Recruiter name required")
    ELSE IF fail THEN RolledBack(db, "DB Error (add recruiter)")
    ELSE Committed(
        [db EXCEPT
            !.recruiters = @ \cup {[recruiter_id |-> db.seq["recruiter"] + 1, name |-> name,
                                    agency_company_id |-> agency_id, contact_info |-> contact,
                                    notes |-> "", first_contact_date |-> None,
                                    created_at |-> db.clock + 1]},
            !.seq["recruiter"] = @ + 1,
            !.clock = @ + 1])

\* app.py 153-163.
add_new_recruiter(db, name, agency_id, contact, notes_val, date_f, fail) ==
    IF name = "" THEN Refused(db, "Recruiter name required")
    ELSE IF fail THEN RolledBack(db, "DB Error (add recruiter)")
    ELSE Committed(
        [db EXCEPT
            !.recruiters = @ \cup {[recruiter_id |-> db.seq["recruiter"] + 1, name |-> name,
                                    agency_company_id |-> agency_id, contact_info |-> contact,
                                    notes |-> notes_val, first_contact_date |-> date_f,
                                    created_at |-> db.clock + 1]},
            !.seq["recruiter"] = @ + 1,
            !.clock = @ + 1])

\* app.py 232-242.
add_new_task(db, desc, due, stat, prio, notes_val, j_id, rec_id, comp_id, fail) ==
    IF desc = "" \/ stat = "" THEN Refused(db, "Task Description and Status are required")
    ELSE IF fail THEN RolledBack(db, "DB Error (add task)")
    ELSE Committed(
        [db EXCEPT
            !.tasks = @ \cup {[task_id |-> db.seq["task"] + 1, task_description |-> desc,
                               due_date |-> due, status |-> stat, priority |-> prio,
                               notes |-> notes_val, job_id |-> j_id, recruiter_id |-> rec_id,
                               company_id |-> comp_id, created_at |-> db.clock + 1]},
            !.seq["task"] = @ + 1,
            !.clock = @ + 1])

\* An UPDATE with patch semantics: a column supplied as empty or None keeps
\* its stored value.
update_task_details_patch(db, task_id, desc, due, stat, prio, notes_val, j_id, rec_id, comp_id, fail) ==
    IF task_id = None \/ desc = "" \/ stat = "" THEN Refused(db, "Task ID, Description, Status required for update.")
    ELSE IF fail THEN RolledBack(db, "DB Error (update task)")
    ELSE Committed(
        [db EXCEPT !.tasks =
            {IF r.task_id = task_id
                THEN [r EXCEPT !.task_description = desc,
                               !.due_date = IF due = None THEN @ ELSE due,
                               !.status = stat,
                               !.priority = IF prio = NULL THEN @ ELSE prio,
                               !.notes = IF notes_val = "" THEN @ ELSE notes_val,
                               !.job_id = IF j_id = None THEN @ ELSE j_id,
                               !.recruiter_id = IF rec_id = None THEN @ ELSE rec_id,
                               !.company_id = IF comp_id = None THEN @ ELSE comp_id]
                ELSE r : r \in @}])

\* app.py 259-272.
update_task_details(db, task_id, desc, due, stat, prio, notes_val, j_id, rec_id, comp_id, fail) ==
    IF task_id = None \/ desc = "" \/ stat = "" THEN Refused(db, "Task ID, Description, Status required for update.")
    ELSE IF fail THEN RolledBack(db, "DB Error (update task)")
    ELSE Committed(
        [db EXCEPT !.tasks =
            {IF r.task_id = task_id
                THEN [r EXCEPT !.task_description = desc, !.due_date = due, !.status = stat,
                               !.priority = prio, !.notes = notes_val, !.job_id = j_id,
                               !.recruiter_id = rec_id, !.company_id = comp_id]
                ELSE r : r \in @}])

\* app.py 274-281.
delete_task_record(db, task_id, fail) ==
    IF task_id = None THEN Refused(db, "Task ID required for deletion.")
    ELSE IF fail THEN RolledBack(db, "DB Error (delete task)")
    ELSE Committed([db EXCEPT !.tasks = {r \in @ : r.task_id # task_id}])

\* app.py 558-568: the Recruiter Tracker page updates the row inline.
update_recruiter(db, rec_id, name, agency_id, contact, notes_val, date_f, fail) ==
    IF fail THEN RolledBack(db, "Error updating recruiter")
    ELSE Committed(
        [db EXCEPT !.recruiters =
            {IF r.recruiter_id = rec_id
                THEN [r EXCEPT !.name = name, !.agency_company_id = agency_id,
                               !.contact_info = contact, !.notes = notes_val,
                               !.first_contact_date = date_f]
                ELSE r : r \in @}])

\* app.py 578-585: the Recruiter Tracker page deletes the row inline.
delete_recruiter(db, rec_id, fail) ==
    IF fail THEN RolledBack(db, "Error deleting recruiter")
    ELSE Committed([db EXCEPT !.recruiters = {r \in @ : r.recruiter_id # rec_id}])

\* An inline update whose except clause reports the error and leaves the
\* statement's effect in place.
update_company_no_rollback(db, comp_id, name, sector_val, web, notes_val, src, fail) ==
    [ok |-> ~fail,
     db |-> [db EXCEPT !.companies =
                {IF r.company_id = comp_id
                    THEN [r EXCEPT !.company_name = name, !.sector = sector_val,
                                   !.website = web, !.notes = notes_val, !.source = src]
                    ELSE r : r \in @}],
     stmts |-> 1,
     commits |-> IF fail THEN 0 ELSE 1,
     err |-> IF fail THEN "Error updating company" ELSE ""]

\* app.py 652-662: the Company Tracker page updates the row inline.
update_company(db, comp_id, name, sector_val, web, notes_val, src, fail) ==
    IF fail THEN RolledBack(db, "Error updating company")
    ELSE Committed(
        [db EXCEPT !.companies =
            {IF r.company_id = comp_id
                THEN [r EXCEPT !.company_name = name, !.sector = sector_val, !.website = web,
                               !.notes = notes_val, !.source = src]
                ELSE r : r \in @}])

\* app.py 672-679: the Company Tracker page deletes the row inline.
delete_company(db, comp_id, fail) ==
    IF fail THEN RolledBack(db, "Error deleting company")
    ELSE Committed([db EXCEPT !.companies = {r \in @ : r.company_id # comp_id}])

\* A delete that reports success and removes nothing (the DELETE never
\* committed).
delete_record_kept(db, k, id, fail) ==
    IF fail THEN RolledBack(db, "DB Error (delete)") ELSE Committed(db)

\* The delete statement of kind k (app.py 477, 580, 674, 809).
delete_record(db, k, id, fail) ==
    CASE k = "company" -> delete_company(db, id, fail)
      [] k = "job" -> delete_job_record(db, id, fail)
      [] k = "recruiter" -> delete_recruiter(db, id, fail)
      [] k = "task" -> delete_task_record(db, id, fail)

\* ---------------------------------------------------- aggregation queries
\* What a read function hands back: its value, the st.error text it showed
\* ("" for none), and whether an exception left the function.
Returned(v) == [value |-> v, err |-> "", raised |-> FALSE]

\* An except clause that lets the exception through.
Uncaught(v, msg) == [value |-> v, err |-> "", raised |-> TRUE]

\* except (Exception, psycopg2.Error) as e: st.error(...); return v
Caught(v, msg) == [value |-> v, err |-> msg, raised |-> FALSE]

\* The rows of S in the order of the strict total order Before, as a sequence.
Ordered(S, Before(_, _)) ==
    [i \in 1..Cardinality(S) |->
        CHOOSE r \in S : Cardinality({o \in S : Before(o, r)}) = i - 1]

\* LIMIT count.
Limit(seq, count) == SubSeq(seq, 1, IF Len(seq) < count THEN Len(seq) ELSE count)

\* LEFT JOIN ... ON id: the name column of the row of kind k with this id,
\* NULL when no row matches (or the id is None).
joined_name(db, k, id) ==
    LET hit == {r \in Table(db, k) : RowId(k, r) = id}
    IN IF hit = {} THEN NULL
       ELSE LET r == CHOOSE r \in hit : TRUE
            IN CASE k = "company" -> r.company_name
                 [] k = "job" -> r.job_title
                 [] k = "recruiter" -> r.name

\* app.py 58-62.  connected: db_conn is not None; fail: the query raises.
get_total_jobs_count(db, connected, fail) ==
    IF ~connected THEN Returned(0)
    ELSE IF fail THEN Caught(0, "DB Error (total_jobs)")
    ELSE Returned(Cardinality(db.jobs))

\* app.py 66: s, the statuses the query counts.
counted_statuses == {"Not Applied", "Applied", "Interviewing", "Offer"}

\* app.py 64-73: {} with no connection; else c, one entry per status of s,
\* 0 unless a GROUP BY row (a status of s with at least one job) overwrites it.
get_job_status_counts(db, connected, fail) ==
    IF ~connected THEN Returned([st_val \in {} |-> 0])
    ELSE IF fail THEN Caught([st_val \in counted_statuses |-> 0],
                             "DB Error (job_status_counts)")
    ELSE Returned([st_val \in counted_statuses |->
                      Cardinality({j \in db.jobs : j.status = st_val})])

\* ORDER BY created_at DESC.
NewestFirst(a, b) == a.created_at > b.created_at

\* app.py 166-172.
get_recent_companies(db, count, connected, fail) ==
    IF ~connected THEN Returned(<<>>)
    ELSE IF fail THEN Caught(<<>>, "DB Error (recent_companies)")
    ELSE Returned(Limit(Ordered({[company_id |-> c.company_id,
                                  company_name |-> c.company_name,
                                  created_at |-> c.created_at] : c \in db.companies},
                                NewestFirst), count))

\* app.py 132-138.
get_recent_recruiters(db, count, connected, fail) ==
    IF ~connected THEN Returned(<<>>)
    ELSE IF fail THEN Caught(<<>>, "DB Error (recent_recruiters)")
    ELSE Returned(Limit(Ordered({[recruiter_id |-> r.recruiter_id, name |-> r.name,
                                  created_at |-> r.created_at] : r \in db.recruiters},
                                NewestFirst), count))

\* Alphabetical rank of the priority words; NULL sorts last.
PriorityAsc(s) ==
    CASE s = "High" -> 1
      [] s = "Low" -> 2
      [] s = "Medium" -> 3
      [] OTHER -> 4

\* The order with the tasks that have no due date first.
UpcomingBeforeNullsFirst(a, b) ==
    LET dueLt == b.due_date # None /\ (a.due_date = None \/ a.due_date < b.due_date)
        dueEq == a.due_date = b.due_date
        prLt == PriorityAsc(a.priority) < PriorityAsc(b.priority)
        prEq == a.priority = b.priority
    IN \/ dueLt
       \/ dueEq /\ prLt
       \/ dueEq /\ prEq /\ a.created_at < b.created_at

\* app.py 207: ORDER BY due_date ASC NULLS LAST, priority ASC NULLS LAST,
\* created_at ASC.  a comes before b.
UpcomingBefore(a, b) ==
    LET dueLt == a.due_date # None /\ (b.due_date = None \/ a.due_date < b.due_date)
        dueEq == a.due_date = b.due_date
        prLt == PriorityAsc(a.priority) < PriorityAsc(b.priority)
        prEq == a.priority = b.priority
    IN \/ dueLt
       \/ dueEq /\ prLt
       \/ dueEq /\ prEq /\ a.created_at < b.created_at

\* The same query with its WHERE clause left out.
get_upcoming_tasks_unfiltered(db, count, connected, fail) ==
    IF ~connected THEN Returned(<<>>)
    ELSE IF fail THEN Caught(<<>>, "DB Error (upcoming_tasks)")
    ELSE LET shown == Limit(Ordered(db.tasks, UpcomingBefore), count)
         IN Returned([i \in DOMAIN shown |->
                [task_id |-> shown[i].task_id,
                 task_description |-> shown[i].task_description,
                 due_date |-> shown[i].due_date, status |-> shown[i].status,
                 priority |-> shown[i].priority,
                 job_title |-> joined_name(db, "job", shown[i].job_id),
                 recruiter_name |-> joined_name(db, "recruiter", shown[i].recruiter_id),
                 related_company_name |-> joined_name(db, "company", shown[i].company_id)]])

\* app.py 195-211.
get_upcoming_tasks(db, count, connected, fail) ==
    IF ~connected THEN Returned(<<>>)
    ELSE IF fail THEN Caught(<<>>, "DB Error (upcoming_tasks)")
    ELSE LET open == {t \in db.tasks : t.status \notin {"Completed", "Cancelled"}}
             shown == Limit(Ordered(open, UpcomingBefore), count)
         IN Returned([i \in DOMAIN shown |->
                [task_id |-> shown[i].task_id,
                 task_description |-> shown[i].task_description,
                 due_date |-> shown[i].due_date, status |-> shown[i].status,
                 priority |-> shown[i].priority,
                 job_title |-> joined_name(db, "job", shown[i].job_id),
                 recruiter_name |-> joined_name(db, "recruiter", shown[i].recruiter_id),
                 related_company_name |-> joined_name(db, "company", shown[i].company_id)]])

\* app.py 317-321, in call order.
dashboard_queries ==
    <<"total_jobs", "job_status_counts", "recent_companies", "recent_recruiters",
      "upcoming_tasks">>

\* app.py 317-321: the five calls of a Dashboard pass; fails: the queries
\* that raise.  A call is made when no call before it let an exception out.
\* Returns the value of each call made and the errors shown.
dashboard_pass(db, connected, fails) ==
    LET q == [n \in {dashboard_queries[i] : i \in 1..5} |->
                CASE n = "total_jobs" -> get_total_jobs_count(db, connected, n \in fails)
                  [] n = "job_status_counts" ->
                        get_job_status_counts(db, connected, n \in fails)
                  [] n = "recent_companies" ->
                        get_recent_companies(db, 3, connected, n \in fails)
                  [] n = "recent_recruiters" ->
                        get_recent_recruiters(db, 3, connected, n \in fails)
                  [] n = "upcoming_tasks" ->
                        get_upcoming_tasks(db, 5, connected, n \in fails)]
        ran == {i \in 1..5 : \A j \in 1..(i - 1) : ~q[dashboard_queries[j]].raised}
        called == {dashboard_queries[i] : i \in ran}
    IN [connected |-> connected,
        fails |-> fails,
        called |-> called,
        values |-> [n \in called |-> q[n].value],
        errors |-> {q[n].err : n \in called} \ {""},
        raised |-> \E n \in called : q[n].raised]

\* ----------------------------------------------------------- record reads
\* What a read of one record hands back: fetchone() / next(..., None) found a
\* row, or None.
NoRow == [found |-> FALSE, row |-> <<>>]
Found(r) == [found |-> TRUE, row |-> r]

\* app.py 88-94: SELECT j.*, c.company_name ... WHERE j.job_id = %s; None
\* when no row matches.
get_job_details(db, job_id) ==
    LET hit == {j \in db.jobs : j.job_id = job_id}
    IN IF hit = {} THEN NoRow
       ELSE LET j == CHOOSE j \in hit : TRUE
            IN Found(j @@ [company_name |-> joined_name(db, "company", j.company_id)])

\* app.py 244-257: SELECT t.*, j.job_title, r.name, cy.company_name ...
\* WHERE t.task_id = %s.
get_task_details(db, task_id) ==
    LET hit == {t \in db.tasks : t.task_id = task_id}
    IN IF hit = {} THEN NoRow
       ELSE LET t == CHOOSE t \in hit : TRUE
            IN Found(t @@ [job_title |-> joined_name(db, "job", t.job_id),
                           recruiter_name |-> joined_name(db, "recruiter", t.recruiter_id),
                           related_company_name |->
                                joined_name(db, "company", t.company_id)])

\* app.py 140-151 and 535: the row of get_all_recruiters with this id.
get_recruiter_row(db, rec_id) ==
    LET hit == {r \in db.recruiters : r.recruiter_id = rec_id}
    IN IF hit = {} THEN NoRow
       ELSE LET r == CHOOSE r \in hit : TRUE
            IN Found(r @@ [agency_name |->
                                joined_name(db, "company", r.agency_company_id)])

\* app.py 174-180 and 638: the row of get_all_companies with this id.
get_company_row(db, comp_id) ==
    LET hit == {c \in db.companies : c.company_id = comp_id}
    IN IF hit = {} THEN NoRow ELSE Found(CHOOSE c \in hit : TRUE)

\* The read of one record of kind k (app.py 436, 535, 638, 756).
get_record(db, k, id) ==
    CASE k = "company" -> get_company_row(db, id)
      [] k = "job" -> get_job_details(db, id)
      [] k = "recruiter" -> get_recruiter_row(db, id)
      [] k = "task" -> get_task_details(db, id)

\* The insert of kind k with payload p, a record of the column values.
insert_record(db, k, p, fail) ==
    CASE k = "company" ->
            add_new_company(db, p.company_name, p.sector, p.website, p.notes, p.source, fail)
      [] k = "job" ->
            add_new_job(db, p.job_title, p.company_id, p.location, p.status, p.job_url,
                        p.notes, p.date_found, fail)
      [] k = "recruiter" ->
            add_new_recruiter(db, p.name, p.agency_company_id, p.contact_info, p.notes,
                              p.first_contact_date, fail)
      [] k = "task" ->
            add_new_task(db, p.task_description, p.due_date, p.status, p.priority, p.notes,
                         p.job_id, p.recruiter_id, p.company_id, fail)

\* The update of record id of kind k with payload p.
update_record(db, k, id, p, fail) ==
    CASE k = "company" ->
            update_company(db, id, p.company_name, p.sector, p.website, p.notes, p.source,
                           fail)
      [] k = "job" ->
            update_job_details(db, id, p.job_title, p.company_id, p.location, p.status,
                               p.job_url, p.notes, p.date_found, fail)
      [] k = "recruiter" ->
            update_recruiter(db, id, p.name, p.agency_company_id, p.contact_info, p.notes,
                             p.first_contact_date, fail)
      [] k = "task" ->
            update_task_details(db, id, p.task_description, p.due_date, p.status,
                                p.priority, p.notes, p.job_id, p.recruiter_id, p.company_id,
                                fail)

\* ---------------------------------------------------- reference resolver
\* app.py 35-50, get_options: {default: None}, then every row in name order
\* overwrites options_map[str(name)].  Rows that share a name come in an order
\* SQL leaves open, so the id kept for that name is any of theirs; a row named
\* like the default text overwrites the default entry.  The result is the set
\* of maps the call can return.
get_options(pairs, default_option_text) ==
    LET names == {p[2] : p \in pairs} \cup {default_option_text}
        ids == {p[1] : p \in pairs} \cup {None}
    IN {f \in [names -> ids] :
            \A n \in names :
                IF \E p \in pairs : p[2] = n
                    THEN \E p \in pairs : p[2] = n /\ f[n] = p[1]
                    ELSE f[n] = None}

\* app.py 32-55: the three maps (company, job, recruiter) one load can return.
load_selectbox_options(db) ==
    [company : get_options({<<r.company_id, r.company_name>> : r \in db.companies},
                           SelectCompany),
     job : get_options({<<r.job_id, r.job_title>> : r \in db.jobs}, SelectJob),
     recruiter : get_options({<<r.recruiter_id, r.name>> : r \in db.recruiters},
                             SelectRecruiter)]

\* app.py 303-305: the names of a map whose id is not None.
actual_names(options_map) == {n \in DOMAIN options_map : options_map[n] # None}

\* dict.get(name): None for a missing key.
MapGet(options_map, n) == IF n \in DOMAIN options_map THEN options_map[n] ELSE None

\* --------------------------------------------- Edit/Delete tab selectbox
\* One option of the "Select ...:" box: the record id and the parts of its
\* display string (texts, and for a task its list position and due date).
Placeholder == [id |-> None, idx |-> 0, text |-> <<>>, due |-> None]

\* LEFT JOIN companies: the company name of a job, "None" when no row matches.
company_name_of(db, comp_id) ==
    IF \E c \in db.companies : c.company_id = comp_id
        THEN (CHOOSE c \in db.companies : c.company_id = comp_id).company_name
        ELSE "None"

\* Alphabetical rank of the status and priority words (ORDER BY on text).
StatusRank(s) ==
    CASE s = "Awaiting Feedback" -> 1
      [] s = "Cancelled" -> 2
      [] s = "Completed" -> 3
      [] s = "In Progress" -> 4
      [] s = "Open" -> 5
      [] OTHER -> 6

PriorityRank(s) ==
    CASE s = "High" -> 1
      [] s = "Low" -> 2
      [] s = "Medium" -> 3
      [] OTHER -> 4

\* app.py 227: ORDER BY due_date ASC NULLS LAST, status ASC, priority DESC
\* NULLS LAST, created_at DESC.  a comes before b.
AllTasksBefore(a, b) ==
    LET dueLt == a.due_date # None /\ (b.due_date = None \/ a.due_date < b.due_date)
        dueEq == a.due_date = b.due_date
        stLt == StatusRank(a.status) < StatusRank(b.status)
        stEq == a.status = b.status
        prLt == a.priority # NULL /\
                (b.priority = NULL \/ PriorityRank(a.priority) > PriorityRank(b.priority))
        prEq == a.priority = b.priority
    IN \/ dueLt
       \/ dueEq /\ stLt
       \/ dueEq /\ stEq /\ prLt
       \/ dueEq /\ stEq /\ prEq /\ a.created_at > b.created_at

\* app.py 425, 526, 629, 744-747: the options built from the full list.
Options(db, k) ==
    CASE k = "company" ->
            {[id |-> r.company_id, idx |-> 0, text |-> <<r.company_name>>, due |-> None] :
                r \in db.companies}
      [] k = "job" ->
            {[id |-> r.job_id, idx |-> 0,
              text |-> <<r.job_title, company_name_of(db, r.company_id)>>, due |-> None] :
                r \in db.jobs}
      [] k = "recruiter" ->
            {[id |-> r.recruiter_id, idx |-> 0, text |-> <<r.name>>, due |-> None] :
                r \in db.recruiters}
      [] k = "task" ->
            {[id |-> r.task_id,
              idx |-> 1 + Cardinality({o \in db.tasks : AllTasksBefore(o, r)}),
              text |-> <<r.task_description>>, due |-> r.due_date] :
                r \in db.tasks}
      [] OTHER -> {}

\* ------------------------------------------------------------------ state
VARIABLES
    db,                     \* the four tables
    page,                   \* the sidebar radio (app.py 289)
    sel_to_edit_delete,     \* value of the "Select ...:" box of the page's Edit/Delete tab
    selected_id_for_edit,   \* st.session_state.selected_<kind>_id_for_edit, by kind
    confirm_delete_id,      \* st.session_state.confirm_delete_<kind>_id, by kind
    options_cache,          \* what st.cache_data holds for load_selectbox_options
    screen,                 \* what the last run left in the browser
    last                    \* the interaction that led here, and what it did
                            \* (displaced: the pending id a delete request replaced)

vars ==
    <<db, page, sel_to_edit_delete, selected_id_for_edit, confirm_delete_id,
      options_cache, screen, last>>

KindOfPage(p) ==
    CASE p = "Company Tracker" -> "company"
      [] p = "Job Tracker" -> "job"
      [] p = "Recruiter Tracker" -> "recruiter"
      [] p = "Task Manager" -> "task"
      [] OTHER -> ""

Blank == [form |-> None, confirm |-> FALSE, options |-> {}]

NoLast ==
    [op |-> "Start", kind |-> "", id |-> None, acted |-> FALSE, ok |-> FALSE,
     stmts |-> 0, commits |-> 0, msgs |-> {}, faults |-> {},
     text |-> "", choice |-> "", typed |-> "", displaced |-> None, dash |-> <<>>,
     payload |-> <<>>, had |-> NoRow, got |-> NoRow, listed |-> {}]

\* Streamlit keeps the value of a keyed selectbox between runs.  A value that
\* is no longer among the options falls back to index 0.  When the option list
\* changed and the value is still in it, releases that derive the widget's
\* identity from its options fall back to index 0, the others keep the value:
\* the set of values the box can have in a run.
WidgetValues(w, optsBefore, optsNow) ==
    IF w \notin optsNow THEN {Placeholder}
    ELSE IF optsBefore # optsNow THEN {w, Placeholder}
    ELSE {w}

\* A pass that draws the confirm and cancel buttons for whatever record is
\* selected, pending or not (the test of app.py 472 left out).
EditTabConfirmAlways(p, d, w2, selected, confirm) ==
    LET k == KindOfPage(p)
        opts == Options(d, k)
    IN IF p = "Dashboard" \/ opts = {}
        THEN [w |-> Placeholder, selected |-> selected, form |-> None,
              confirm |-> FALSE, options |-> {}]
        ELSE [w |-> w2, selected |-> [selected EXCEPT ![k] = w2.id], form |-> w2.id,
              confirm |-> w2.id # None, options |-> opts]

\* One pass over the Edit/Delete tab of page p (app.py 420-483, 520-590,
\* 623-684, 739-815) up to the controls it draws, with w2 the value of the
\* selectbox: the session's selected ids, the record whose edit form and
\* "Request to Delete" button are drawn, and whether the confirm and cancel
\* buttons are drawn.  With no rows the tab draws nothing and leaves
\* selected_<kind>_id_for_edit alone.
EditTab(p, d, w2, selected, confirm) ==
    LET k == KindOfPage(p)
        opts == Options(d, k)
    IN IF p = "Dashboard" \/ opts = {}
        THEN [w |-> Placeholder, selected |-> selected, form |-> None,
              confirm |-> FALSE, options |-> {}]
        ELSE [w |-> w2, selected |-> [selected EXCEPT ![k] = w2.id], form |-> w2.id,
              confirm |-> (w2.id # None /\ confirm[k] = w2.id), options |-> opts]

\* The passes a run over page p can make, the box having held w over the
\* options optsBefore.
EditTabs(p, d, w, selected, confirm, optsBefore) ==
    {EditTab(p, d, w2, selected, confirm) :
        w2 \in WidgetValues(w, optsBefore, Options(d, KindOfPage(p)))}

\* The end of an interaction: the last pass over the page, with database d,
\* widget value w and the session values the handler left.
Finish(p, d, w, selected, confirm, optsBefore, lastRec) ==
    \E r \in EditTabs(p, d, w, selected, confirm, optsBefore) :
       /\ db' = d
       /\ page' = p
       /\ sel_to_edit_delete' = r.w
       /\ selected_id_for_edit' = r.selected
       /\ confirm_delete_id' = confirm
       /\ screen' = [form |-> r.form, confirm |-> r.confirm, options |-> r.options]
       /\ last' = lastRec

\* The passes that a click on the current page can trigger, before its handler.
FirstPass ==
    EditTabs(page, db, sel_to_edit_delete, selected_id_for_edit, confirm_delete_id,
             screen.options)

\* app.py 32, 302: a run whose cache entry is older than the ttl loads the
\* maps again at the top of the script; here the run of a plain refresh.
Refresh ==
    /\ options_cache' \in load_selectbox_options(db)
    /\ \E r1 \in FirstPass :
        Finish(page, db, r1.w, r1.selected, confirm_delete_id, r1.options,
               [NoLast EXCEPT !.op = "Refresh"])

\* app.py 483, 815: the warning of the branch taken when the record read
\* returned None.
LostMsg(k) ==
    CASE k = "job" -> "Could not load selected job. It might have been deleted."
      [] k = "task" -> "Could not load selected task."

\* The pass of the branch with the reset of the selected id left out.
EditTabLostKeepsId(p, d, w2, selected, confirm) ==
    [w |-> w2, selected |-> [selected EXCEPT ![KindOfPage(p)] = w2.id], form |-> None,
     confirm |-> FALSE, options |-> Options(d, KindOfPage(p))]

\* app.py 431-436 and 483 (749-756 and 815): the pass over the Edit/Delete tab
\* of the Job or Task page in which the box holds record w2 and
\* get_job_details / get_task_details returns None: no form, no request,
\* confirm or cancel button is drawn, and selected_<kind>_id_for_edit, set
\* from the box at 431, is set to None at 483.
EditTabLost(p, d, w2, selected, confirm) ==
    [w |-> w2, selected |-> [selected EXCEPT ![KindOfPage(p)] = None], form |-> None,
     confirm |-> FALSE, options |-> Options(d, KindOfPage(p))]

\* A run of the script on the Job or Task page with a record selected, in
\* which the read of that record returns None (the query raised, app.py 94,
\* 257, or the row went after the list was read).
RunLost(k) ==
    /\ k \in {"job", "task"}
    /\ page = PageOf(k)
    /\ \E w2 \in WidgetValues(sel_to_edit_delete, screen.options, Options(db, k)) :
         /\ w2.id # None
         /\ LET r == EditTabLost(page, db, w2, selected_id_for_edit, confirm_delete_id)
            IN /\ sel_to_edit_delete' = r.w
               /\ selected_id_for_edit' = r.selected
               /\ screen' = [form |-> r.form, confirm |-> r.confirm, options |-> r.options]
               /\ last' = [NoLast EXCEPT !.op = "RunLost", !.kind = k, !.id = w2.id,
                                         !.msgs = {LostMsg(k)}]
    /\ UNCHANGED <<db, page, confirm_delete_id, options_cache>>

\* ----------------------------------------------------------- navigation
\* app.py 289: another page is chosen.  The widgets of the page left are not
\* drawn in the new run, so their values are dropped.
Navigate(p) ==
    /\ p # page
    /\ UNCHANGED options_cache
    /\ Finish(p, db, Placeholder, selected_id_for_edit, confirm_delete_id, {},
              [NoLast EXCEPT !.op = "Navigate", !.kind = KindOfPage(p)])

\* app.py 427-433 (and 528-532, 631-635, 749-753): an option of the box is
\* chosen, a record or the placeholder.
SelectRecord(k, opt) ==
    /\ page = PageOf(k)
    /\ opt \in screen.options \cup {Placeholder}
    /\ screen.options # {}
    /\ opt # sel_to_edit_delete
    /\ UNCHANGED options_cache
    /\ Finish(page, db, opt, selected_id_for_edit, confirm_delete_id, screen.options,
              [NoLast EXCEPT !.op = "SelectRecord", !.kind = k, !.id = opt.id])

\* ------------------------------------------------- delete confirmation
DeletedMsg(k) ==
    CASE k = "company" -> "Company deleted!"
      [] k = "job" -> "Job deleted!"
      [] k = "recruiter" -> "Recruiter deleted!"
      [] k = "task" -> "Task deleted!"

\* A request button that deletes at once, with no second step.
RequestDeleteAtOnce(k) ==
    LET id == screen.form
    IN /\ page = PageOf(k)
       /\ id # None
       /\ UNCHANGED options_cache
       /\ \E r1 \in FirstPass :
            LET drawn == r1.form = id
            IN Finish(page,
                      IF drawn THEN delete_record(db, k, id, FALSE).db ELSE db,
                      r1.w, r1.selected,
                      IF drawn THEN [confirm_delete_id EXCEPT ![k] = id]
                               ELSE confirm_delete_id,
                      r1.options,
                      [NoLast EXCEPT !.op = "RequestDelete", !.kind = k, !.id = id,
                                     !.acted = drawn, !.ok = drawn,
                                     !.displaced =
                                        IF drawn /\ confirm_delete_id[k] # id
                                            THEN confirm_delete_id[k] ELSE None])

\* app.py 469-471 (570-572, 664-666, 802-803): "Request to Delete ... ID n".
\* The button's key carries the id; a click counts only if this run draws it.
\* Sets confirm_delete_<kind>_id and re-runs.
RequestDelete(k) ==
    LET id == screen.form
    IN /\ page = PageOf(k)
       /\ id # None
       /\ UNCHANGED options_cache
       /\ \E r1 \in FirstPass :
            LET drawn == r1.form = id
            IN Finish(page, db, r1.w, r1.selected,
                      IF drawn THEN [confirm_delete_id EXCEPT ![k] = id]
                               ELSE confirm_delete_id,
                      r1.options,
                      [NoLast EXCEPT !.op = "RequestDelete", !.kind = k, !.id = id,
                                     !.acted = drawn, !.ok = drawn,
                                     !.displaced =
                                        IF drawn /\ confirm_delete_id[k] # id
                                            THEN confirm_delete_id[k] ELSE None])

\* app.py 476-478 (577-585, 671-679, 808-810): "YES, Delete Now".  When the
\* delete returns True both session ids of the kind are set to None and the
\* script re-runs; when it fails the run goes on and draws the same controls.
ConfirmDelete(k, fail) ==
    LET id == screen.form
        res == delete_record(db, k, id, fail)
    IN /\ page = PageOf(k)
       /\ id # None
       /\ screen.confirm
       /\ UNCHANGED options_cache
       /\ \E r1 \in FirstPass :
            LET drawn == r1.form = id /\ r1.confirm
                done == drawn /\ res.ok
            IN /\ fail => drawn
               /\ Finish(page,
                         IF drawn THEN res.db ELSE db,
                         r1.w,
                         IF done THEN [r1.selected EXCEPT ![k] = None] ELSE r1.selected,
                         IF done THEN [confirm_delete_id EXCEPT ![k] = None]
                                 ELSE confirm_delete_id,
                         r1.options,
                         [NoLast EXCEPT !.op = "ConfirmDelete", !.kind = k, !.id = id,
                                        !.acted = drawn, !.ok = done,
                                        !.stmts = IF drawn THEN res.stmts ELSE 0,
                                        !.commits = IF drawn THEN res.commits ELSE 0,
                                        !.msgs = IF ~drawn THEN {}
                                                 ELSE IF res.ok THEN {DeletedMsg(k)}
                                                 ELSE {res.err},
                                        !.faults = IF drawn /\ fail THEN {"delete"} ELSE {}])

\* A cancel button wired to the delete (the two columns swapped).
CancelDeleteDeletes(k) ==
    LET id == screen.form
    IN /\ page = PageOf(k)
       /\ id # None
       /\ screen.confirm
       /\ UNCHANGED options_cache
       /\ \E r1 \in FirstPass :
            LET drawn == r1.form = id /\ r1.confirm
            IN Finish(page,
                      IF drawn THEN delete_record(db, k, id, FALSE).db ELSE db,
                      r1.w, r1.selected,
                      IF drawn THEN [confirm_delete_id EXCEPT ![k] = None]
                               ELSE confirm_delete_id,
                      r1.options,
                      [NoLast EXCEPT !.op = "CancelDelete", !.kind = k, !.id = id,
                                     !.acted = drawn, !.ok = drawn])

\* app.py 480-481 (587-588, 681-682, 812-813): "Cancel Deletion".
CancelDelete(k) ==
    LET id == screen.form
    IN /\ page = PageOf(k)
       /\ id # None
       /\ screen.confirm
       /\ UNCHANGED options_cache
       /\ \E r1 \in FirstPass :
            LET drawn == r1.form = id /\ r1.confirm
            IN Finish(page, db, r1.w, r1.selected,
                      IF drawn THEN [confirm_delete_id EXCEPT ![k] = None]
                               ELSE confirm_delete_id,
                      r1.options,
                      [NoLast EXCEPT !.op = "CancelDelete", !.kind = k, !.id = id,
                                     !.acted = drawn, !.ok = drawn,
                                     !.displaced =
                                        IF last.op = "RequestDelete" /\ last.kind = k
                                           /\ last.id = id
                                            THEN last.displaced ELSE None])

\* ------------------------------------------------------------ Job Tracker
Max(S) == CHOOSE x \in S : \A y \in S : y <= x

Min(S) == CHOOSE x \in S : \A y \in S : x <= y

\* The re-query ordered the other way (ORDER BY company_id ASC).
oldest_company_id(d, name) ==
    LET found == {c.company_id : c \in {c \in d.companies : c.company_name = name}}
    IN IF found = {} THEN None ELSE Min(found)

\* app.py 400: SELECT company_id ... WHERE company_name = %s ORDER BY
\* company_id DESC LIMIT 1; None when no row matches.
newest_company_id(d, name) ==
    LET found == {c.company_id : c \in {c \in d.companies : c.company_name = name}}
    IN IF found = {} THEN None ELSE Max(found)

\* A test that takes the placeholder for a selection.
CompanyChosenAny(choice) == choice # ""

\* app.py 410: an existing company is selected.
CompanyChosen(choice) == choice # "" /\ choice # SelectCompany

\* app.py 389-418, the submit handler of "Add New Job".  cmap is
\* company_options_map; f holds the other inputs (location, status, job_url,
\* notes, date_found).  cFail, qFail, jFail: the company INSERT, the re-query
\* of its id, the job INSERT raise.  Returns the database left, whether the
\* job was added (and the script re-run), and what was executed and shown.
AddJobHandler(d, cmap, title, choice, typed, f, cFail, qFail, jFail) ==
    LET typedBranch == typed # ""
        rc == add_new_company(d, typed, "", "", "", "", cFail)
        row == newest_company_id(rc.db, typed)
        fetched == typedBranch /\ rc.ok /\ ~qFail /\ row # None
        chosen == ~typedBranch /\ CompanyChosen(choice)
        sel_comp_id == IF fetched THEN row
                       ELSE IF chosen THEN MapGet(cmap, choice)
                       ELSE None
        is_valid == (fetched \/ chosen) /\ title # ""
        d1 == IF typedBranch THEN rc.db ELSE d
        call == is_valid /\ sel_comp_id # None
        rj == add_new_job(d1, title, sel_comp_id, f.location, f.status, f.job_url,
                          f.notes, f.date_found, jFail)
    IN [db |-> IF call THEN rj.db ELSE d1,
        ok |-> call /\ rj.ok,
        stmts |-> (IF typedBranch THEN rc.stmts ELSE 0) + (IF call THEN rj.stmts ELSE 0),
        commits |-> (IF typedBranch THEN rc.commits ELSE 0) + (IF call THEN rj.commits ELSE 0),
        msgs |-> (IF typedBranch /\ rc.ok THEN {"Company added!"} ELSE {})
                 \cup (IF typedBranch /\ ~rc.ok THEN {rc.err, "Failed to add new company."} ELSE {})
                 \cup (IF typedBranch /\ rc.ok /\ qFail THEN {"Error fetching new company ID"} ELSE {})
                 \cup (IF typedBranch /\ rc.ok /\ ~qFail /\ row = None
                          THEN {"Could not retrieve new company ID."} ELSE {})
                 \cup (IF ~typedBranch /\ ~chosen THEN {"Please select or type a company."} ELSE {})
                 \cup (IF title = "" THEN {"Title required"} ELSE {})
                 \cup (IF call /\ ~rj.ok THEN {rj.err} ELSE {})
                 \cup (IF call /\ rj.ok THEN {"Job added!"} ELSE {}),
        faults |-> (IF typedBranch /\ cFail THEN {"company insert"} ELSE {})
                   \cup (IF typedBranch /\ rc.ok /\ qFail THEN {"re-query"} ELSE {})
                   \cup (IF call /\ jFail THEN {"job insert"} ELSE {})]

\* The faults asked of a run are the faults it met.
Flags(a, fa, b, fb, c, fc) ==
    (IF a THEN {fa} ELSE {}) \cup (IF b THEN {fb} ELSE {}) \cup (IF c THEN {fc} ELSE {})

\* app.py 366-418: "Add Job to Tracker" is pressed.  choice is an option of
\* "Select Existing Company"; the tab is drawn before the Edit/Delete tab,
\* which the same run (no job added) or the re-run (job added) draws next.
SubmitAddJob(title, choice, typed, f, cFail, qFail, jFail) ==
    LET h == AddJobHandler(db, options_cache.company, title, choice, typed, f,
                           cFail, qFail, jFail)
    IN /\ page = "Job Tracker"
       /\ choice \in {SelectCompany} \cup actual_names(options_cache.company)
       /\ h.faults = Flags(cFail, "company insert", qFail, "re-query", jFail, "job insert")
       /\ UNCHANGED options_cache
       /\ Finish(page, h.db, sel_to_edit_delete, selected_id_for_edit,
                 confirm_delete_id, screen.options,
                 [NoLast EXCEPT !.op = "SubmitAddJob", !.kind = "job", !.acted = TRUE,
                                !.ok = h.ok, !.stmts = h.stmts, !.commits = h.commits,
                                !.msgs = h.msgs, !.faults = h.faults, !.text = title,
                                !.choice = choice, !.typed = typed])

\* app.py 459-466, the submit handler of "Update Job Details" for the job the
\* form was built for.  names is actual_company_names; with no company listed
\* the box is a disabled text input holding str(company_id), which is no key
\* of the map.
UpdateJobHandler(d, cmap, j_id, title, choice, f, fail) ==
    LET names == actual_names(cmap)
        edit_sel_comp_id == IF choice # "" /\ choice \in DOMAIN cmap THEN cmap[choice] ELSE None
        is_valid == title # "" /\ ~(edit_sel_comp_id = None /\ names # {})
        r == update_job_details(d, j_id, title, edit_sel_comp_id, f.location, f.status,
                                f.job_url, f.notes, f.date_found, fail)
    IN [db |-> IF is_valid THEN r.db ELSE d,
        ok |-> is_valid /\ r.ok,
        stmts |-> IF is_valid THEN r.stmts ELSE 0,
        commits |-> IF is_valid THEN r.commits ELSE 0,
        msgs |-> (IF title = "" THEN {"Title required"} ELSE {})
                 \cup (IF edit_sel_comp_id = None /\ names # {} THEN {"Company required"} ELSE {})
                 \cup (IF is_valid /\ ~r.ok THEN {r.err} ELSE {})
                 \cup (IF is_valid /\ r.ok THEN {"Job updated!"} ELSE {}),
        faults |-> IF is_valid /\ r.stmts > 0 /\ fail THEN {"update"} ELSE {}]

\* What the interaction leaves when the edit form of kind k is submitted and
\* its handler returned h: on success selected_<kind>_id_for_edit is set to
\* None and the script re-run (app.py 466, 565, 659, 799).  The form belongs
\* to the record on screen; the submit counts only if this run draws it.
FinishUpdate(k, h, fail, lastRec) ==
    /\ page = PageOf(k)
    /\ screen.form # None
    /\ UNCHANGED options_cache
    /\ \E r1 \in FirstPass :
        LET drawn == r1.form = screen.form
        IN /\ fail => drawn /\ h.faults # {}
           /\ Finish(page,
                     IF drawn THEN h.db ELSE db,
                     r1.w,
                     IF drawn /\ h.ok THEN [r1.selected EXCEPT ![k] = None] ELSE r1.selected,
                     confirm_delete_id, r1.options,
                     [lastRec EXCEPT !.kind = k, !.id = screen.form, !.acted = drawn,
                                     !.ok = drawn /\ h.ok,
                                     !.stmts = IF drawn THEN h.stmts ELSE 0,
                                     !.commits = IF drawn THEN h.commits ELSE 0,
                                     !.msgs = IF drawn THEN h.msgs ELSE {},
                                     !.faults = IF drawn THEN h.faults ELSE {}])

\* app.py 438-466: "Update Job Details" is pressed on the form on screen.
SubmitUpdateJob(title, choice, f, fail) ==
    /\ choice \in (IF actual_names(options_cache.company) # {}
                      THEN actual_names(options_cache.company) ELSE {""})
    /\ FinishUpdate("job",
                    UpdateJobHandler(db, options_cache.company, screen.form, title, choice,
                                     f, fail),
                    fail,
                    [NoLast EXCEPT !.op = "SubmitUpdateJob", !.text = title,
                                   !.choice = choice])

\* ------------------------------------------------------ Recruiter Tracker
\* app.py 513-514, 554-555: the agency id of the chosen option.
AgencyId(cmap, choice) ==
    IF choice # "" /\ choice \notin {NoAgency, SelectCompany} THEN MapGet(cmap, choice) ELSE None

\* What a handler reports: r is the result of the one write it made when
\* valid, done the st.success text, invalid the validation messages.
Report(d, valid, r, done, invalid, fail) ==
    [db |-> IF valid THEN r.db ELSE d,
     ok |-> valid /\ r.ok,
     stmts |-> IF valid THEN r.stmts ELSE 0,
     commits |-> IF valid THEN r.commits ELSE 0,
     msgs |-> IF ~valid THEN invalid ELSE IF r.ok THEN {done} ELSE {r.err},
     faults |-> IF valid /\ r.stmts > 0 /\ fail THEN {"write"} ELSE {}]

\* app.py 510-518, the submit handler of "Add Recruiter".
AddRecruiterHandler(d, cmap, name, choice, f, fail) ==
    Report(d, name # "",
           add_new_recruiter(d, name, AgencyId(cmap, choice), f.contact_info, f.notes,
                             f.first_contact_date, fail),
           "Recruiter added!", {"Name required"}, fail)

\* app.py 551-568, the submit handler of "Update Recruiter".
UpdateRecruiterHandler(d, cmap, rec_id, name, choice, f, fail) ==
    Report(d, name # "",
           update_recruiter(d, rec_id, name, AgencyId(cmap, choice), f.contact_info, f.notes,
                            f.first_contact_date, fail),
           "Recruiter updated!", {"Name required"}, fail)

\* What an "Add ..." form of kind k leaves: the Edit/Delete tab is drawn after
\* it, by this run or, when the row was added, by the re-run (app.py 418,
\* 518, 621, 737).
FinishAdd(k, h, fail, lastRec) ==
    /\ page = PageOf(k)
    /\ fail => h.faults # {}
    /\ UNCHANGED options_cache
    /\ Finish(page, h.db, sel_to_edit_delete, selected_id_for_edit, confirm_delete_id,
              screen.options,
              [lastRec EXCEPT !.kind = k, !.acted = TRUE, !.ok = h.ok, !.stmts = h.stmts,
                              !.commits = h.commits, !.msgs = h.msgs, !.faults = h.faults])

\* app.py 501-518: "Add Recruiter" is pressed.
SubmitAddRecruiter(name, choice, f, fail) ==
    /\ choice \in {NoAgency} \cup actual_names(options_cache.company)
    /\ FinishAdd("recruiter",
                 AddRecruiterHandler(db, options_cache.company, name, choice, f, fail),
                 fail,
                 [NoLast EXCEPT !.op = "SubmitAddRecruiter", !.text = name,
                                !.choice = choice])

\* app.py 537-568: "Update Recruiter" is pressed on the form on screen.
SubmitUpdateRecruiter(name, choice, f, fail) ==
    /\ choice \in {NoAgency} \cup actual_names(options_cache.company)
    /\ FinishUpdate("recruiter",
                    UpdateRecruiterHandler(db, options_cache.company, screen.form, name,
                                           choice, f, fail),
                    fail,
                    [NoLast EXCEPT !.op = "SubmitUpdateRecruiter", !.text = name,
                                   !.choice = choice])

\* -------------------------------------------------------- Company Tracker
\* app.py 617-621, the submit handler of "Add Company".
AddCompanyHandler(d, name, f, fail) ==
    Report(d, name # "",
           add_new_company(d, name, f.sector, f.website, f.notes, f.source, fail),
           "Company added!", {"Company name required"}, fail)

\* app.py 648-662, the submit handler of "Update Company".
UpdateCompanyHandler(d, comp_id, name, f, fail) ==
    Report(d, name # "",
           update_company(d, comp_id, name, f.sector, f.website, f.notes, f.source, fail),
           "Company updated!", {"Company name required"}, fail)

\* app.py 608-621: "Add Company" is pressed.
SubmitAddCompany(name, f, fail) ==
    FinishAdd("company", AddCompanyHandler(db, name, f, fail), fail,
              [NoLast EXCEPT !.op = "SubmitAddCompany", !.text = name])

\* app.py 640-662: "Update Company" is pressed on the form on screen.
SubmitUpdateCompany(name, f, fail) ==
    FinishUpdate("company", UpdateCompanyHandler(db, screen.form, name, f, fail), fail,
                 [NoLast EXCEPT !.op = "SubmitUpdateCompany", !.text = name])

\* ----------------------------------------------------------- Task Manager
\* app.py 732-734, 792-794: the id of a chosen link, None for the placeholder.
LinkId(options_map, choice, placeholder) ==
    IF choice # placeholder THEN MapGet(options_map, choice) ELSE None

\* The chosen option written as it is.
PriorityValueKept(choice) == choice

\* app.py 735, 795: "---" is written as NULL.
PriorityValue(choice) == IF choice # "---" THEN choice ELSE NULL

\* app.py 728-737, the submit handler of "Add Task".  links holds the options
\* chosen in the Job, Recruiter and Company boxes.
AddTaskHandler(d, cache, desc, links, f, fail) ==
    Report(d, desc # "" /\ f.status # "",
           add_new_task(d, desc, f.due_date, f.status, PriorityValue(f.priority), f.notes,
                        LinkId(cache.job, links.job, SelectJob),
                        LinkId(cache.recruiter, links.recruiter, SelectRecruiter),
                        LinkId(cache.company, links.company, SelectCompany), fail),
           "Task added!", {"Description and Status are required."}, fail)

\* app.py 790-799, the submit handler of "Update Task".
UpdateTaskHandler(d, cache, task_id, desc, links, f, fail) ==
    Report(d, desc # "" /\ f.status # "",
           update_task_details(d, task_id, desc, f.due_date, f.status,
                               PriorityValue(f.priority), f.notes,
                               LinkId(cache.job, links.job, SelectJob),
                               LinkId(cache.recruiter, links.recruiter, SelectRecruiter),
                               LinkId(cache.company, links.company, SelectCompany), fail),
           "Task updated!", {"Desc and Status required"}, fail)

\* The options of the three link boxes as a run with these maps builds them.
LinkChoices(cache) ==
    [job : {SelectJob} \cup actual_names(cache.job),
     recruiter : {SelectRecruiter} \cup actual_names(cache.recruiter),
     company : {SelectCompany} \cup actual_names(cache.company)]

\* app.py 710-737: "Add Task" is pressed.
SubmitAddTask(desc, links, f, fail) ==
    /\ links \in LinkChoices(options_cache)
    /\ FinishAdd("task", AddTaskHandler(db, options_cache, desc, links, f, fail), fail,
                 [NoLast EXCEPT !.op = "SubmitAddTask", !.text = desc,
                                !.choice = f.priority])

\* app.py 758-799: "Update Task" is pressed on the form on screen.
SubmitUpdateTask(desc, links, f, fail) ==
    /\ links \in LinkChoices(options_cache)
    /\ FinishUpdate("task",
                    UpdateTaskHandler(db, options_cache, screen.form, desc, links, f, fail),
                    fail,
                    [NoLast EXCEPT !.op = "SubmitUpdateTask", !.text = desc,
                                   !.choice = f.priority])

\* ------------------------------------------------------------- edit forms
\* list.index(v), counted from 0.
IndexOf(options, v) == (CHOOSE i \in DOMAIN options : options[i] = v) - 1

\* An index that falls back to the last option.
selector_index_last(options, v) ==
    IF v \in Range(options) THEN IndexOf(options, v) ELSE Len(options) - 1

\* app.py 452, 764, 767: options.index(v) if v in options else 0.
selector_index(options, v) ==
    IF v \in Range(options) THEN IndexOf(options, v) ELSE 0

\* st.selectbox(options=..., index=idx) left as drawn.
Selected(options, idx) == options[idx + 1]

\* The names of the model in the order of their text (ORDER BY name ASC).
NameOrder ==
    <<NoAgency, SelectCompany, SelectJob, SelectRecruiter, "Acme", "Beta", "Call", "Dev",
      "Mail", "Ops", "Rae">>

\* app.py 303-305: the names of a map whose id is not None, in the order of
\* the dict: the default key first, then the rows by name.
actual_names_list(options_map, default_option_text) ==
    LET rank(n) == IF n = default_option_text THEN 0 ELSE 1 + IndexOf(NameOrder, n)
        before(a, b) == rank(a) < rank(b)
    IN Ordered(actual_names(options_map), before)

\* app.py 440-449: the option the "Company*" box of the job edit form starts
\* on: the first name whose id is the job's company_id, else the first name;
\* with no names the box is a disabled text input, whose text is no key of
\* the map ("" here).
edit_comp_name(cmap, company_id) ==
    LET names == actual_names_list(cmap, SelectCompany)
        hits == {i \in DOMAIN names : cmap[names[i]] = company_id}
    IN IF names = <<>> THEN ""
       ELSE IF company_id # None /\ hits # {}
            THEN names[CHOOSE i \in hits : \A o \in hits : i <= o]
            ELSE names[1]

\* app.py 437-456: the inputs of the job edit form as drawn for the row.
job_edit_form(row, cmap) ==
    [text |-> row.job_title,
     choice |-> edit_comp_name(cmap, row.company_id),
     f |-> [location |-> row.location,
            status |-> Selected(job_status_options,
                                selector_index(job_status_options, row.status)),
            job_url |-> row.job_url, notes |-> row.notes, date_found |-> row.date_found]]

\* app.py 773-778, get_select_idx: the option a link box of the task edit
\* form starts on: the name of the map whose id is current_id, else the
\* placeholder.
get_select_name(current_id, options_map, placeholder) ==
    LET hits == {n \in actual_names(options_map) : options_map[n] = current_id}
    IN IF current_id # None /\ hits # {} THEN CHOOSE n \in hits : TRUE ELSE placeholder

\* app.py 758-788: the inputs of the task edit form as drawn for the row.
task_edit_form(row, cache) ==
    [text |-> row.task_description,
     links |-> [job |-> get_select_name(row.job_id, cache.job, SelectJob),
                recruiter |-> get_select_name(row.recruiter_id, cache.recruiter,
                                              SelectRecruiter),
                company |-> get_select_name(row.company_id, cache.company, SelectCompany)],
     f |-> [due_date |-> row.due_date,
            status |-> Selected(task_status_options,
                                selector_index(task_status_options, row.status)),
            priority |-> Selected(task_priority_options,
                                  selector_index(task_priority_options, row.priority)),
            notes |-> row.notes]]

\* app.py 436-466, 755-799: the edit form of the Job or Task on screen is
\* submitted with every input as the run drew it for the stored row.
SubmitUnchanged(k) ==
    /\ page = PageOf(k)
    /\ screen.form # None
    /\ IF k = "job"
       THEN LET job_dets == get_job_details(db, screen.form)
                inp == job_edit_form(job_dets.row, options_cache.company)
            IN /\ job_dets.found
               /\ FinishUpdate("job",
                               UpdateJobHandler(db, options_cache.company, screen.form,
                                                inp.text, inp.choice, inp.f, FALSE),
                               FALSE,
                               [NoLast EXCEPT !.op = "SubmitUnchanged", !.text = inp.text,
                                              !.choice = inp.choice, !.had = job_dets])
       ELSE LET task_dets == get_task_details(db, screen.form)
                inp == task_edit_form(task_dets.row, options_cache)
            IN /\ task_dets.found
               /\ FinishUpdate("task",
                               UpdateTaskHandler(db, options_cache, screen.form, inp.text,
                                                 inp.links, inp.f, FALSE),
                               FALSE,
                               [NoLast EXCEPT !.op = "SubmitUnchanged", !.text = inp.text,
                                              !.choice = inp.f.priority,
                                              !.had = task_dets])

\* -------------------------------------------------------- specification
\* The inputs the session types and picks.  Text inputs can be left empty.
CompanyNames == {"Acme"}
JobTitles == {"Dev"}
RecruiterNames == {"Rae"}
TaskDescriptions == {"Call"}

JobInputs ==
    {[location |-> "", status |-> "Not Applied", job_url |-> "", notes |-> "",
      date_found |-> 1]}
RecruiterInputs == {[contact_info |-> "", notes |-> "", first_contact_date |-> None]}
CompanyInputs == {[sector |-> "", website |-> "", notes |-> "", source |-> ""]}
TaskInputs ==
    {[due_date |-> None, status |-> "Open", priority |-> "---", notes |-> ""]}

CompanyChoices == CompanyNames \cup {SelectCompany, NoAgency, ""}
LinkInputs ==
    [job : JobTitles \cup {SelectJob}, recruiter : RecruiterNames \cup {SelectRecruiter},
     company : CompanyNames \cup {SelectCompany}]

\* The session opens on the Dashboard, nothing selected, nothing pending
\* (app.py 292-299), the option maps just loaded.
InitWith(d) ==
    /\ db = d
    /\ page = "Dashboard"
    /\ sel_to_edit_delete = Placeholder
    /\ selected_id_for_edit = [k \in Kinds |-> None]
    /\ confirm_delete_id = [k \in Kinds |-> None]
    /\ options_cache \in load_selectbox_options(d)
    /\ screen = Blank
    /\ last = NoLast

Init == InitWith(EmptyDb)

\* The serials stop at n rows in all.
BoundedBy(n) == Inserted(db') <= n

\* One session over all five pages.  A form is submitted on the page that
\* draws it.
Next ==
    \/ Refresh
    \/ \E p \in page_options : Navigate(p)
    \/ \E k \in Kinds, opt \in screen.options \cup {Placeholder} : SelectRecord(k, opt)
    \/ \E k \in Kinds : RequestDelete(k)
    \/ \E k \in Kinds, fail \in BOOLEAN : ConfirmDelete(k, fail)
    \/ \E k \in Kinds : CancelDelete(k)
    \/ /\ page = "Job Tracker"
       /\ \E title \in JobTitles \cup {""}, choice \in CompanyChoices,
             typed \in CompanyNames \cup {""}, f \in JobInputs,
             cFail, qFail, jFail \in BOOLEAN :
            SubmitAddJob(title, choice, typed, f, cFail, qFail, jFail)
       /\ BoundedBy(MaxRows)
    \/ /\ page = "Job Tracker"
       /\ \E title \in JobTitles \cup {""}, choice \in CompanyChoices, f \in JobInputs,
             fail \in BOOLEAN :
            SubmitUpdateJob(title, choice, f, fail)
    \/ /\ page = "Recruiter Tracker"
       /\ \E name \in RecruiterNames \cup {""}, choice \in CompanyChoices,
             f \in RecruiterInputs, fail \in BOOLEAN :
            SubmitAddRecruiter(name, choice, f, fail)
       /\ BoundedBy(MaxRows)
    \/ /\ page = "Recruiter Tracker"
       /\ \E name \in RecruiterNames \cup {""}, choice \in CompanyChoices,
             f \in RecruiterInputs, fail \in BOOLEAN :
            SubmitUpdateRecruiter(name, choice, f, fail)
    \/ /\ page = "Company Tracker"
       /\ \E name \in CompanyNames \cup {""}, f \in CompanyInputs, fail \in BOOLEAN :
            SubmitAddCompany(name, f, fail)
       /\ BoundedBy(MaxRows)
    \/ /\ page = "Company Tracker"
       /\ \E name \in CompanyNames \cup {""}, f \in CompanyInputs, fail \in BOOLEAN :
            SubmitUpdateCompany(name, f, fail)
    \/ /\ page = "Task Manager"
       /\ \E desc \in TaskDescriptions \cup {""}, links \in LinkInputs, f \in TaskInputs,
             fail \in BOOLEAN :
            SubmitAddTask(desc, links, f, fail)
       /\ BoundedBy(MaxRows)
    \/ /\ page = "Task Manager"
       /\ \E desc \in TaskDescriptions \cup {""}, links \in LinkInputs, f \in TaskInputs,
             fail \in BOOLEAN :
            SubmitUpdateTask(desc, links, f, fail)

Spec == Init /\ [][Next]_vars

\* A second browser session on the same database (the connection is shared,
\* st.session_state is per session) confirms a delete of its own: the row
\* goes, this session's state and screen stay as they are.
OtherSessionDelete(k, id) ==
    /\ id \in Ids(db, k)
    /\ db' = delete_record(db, k, id, FALSE).db
    /\ last' = [NoLast EXCEPT !.op = "OtherSessionDelete", !.kind = k, !.id = id]
    /\ UNCHANGED <<page, sel_to_edit_delete, selected_id_for_edit, confirm_delete_id,
                   options_cache, screen>>

NextMulti ==
    \/ Next
    \/ \E k \in Kinds, id \in 1..MaxRows : OtherSessionDelete(k, id)

SpecMulti == Init /\ [][NextMulti]_vars


\* The Add New Job form, with companies that differ in name or share one.
AddJobCompanyNames == {"Acme", "Beta"}
MaxAddJobRows == 4

NextAddJob ==
    \/ Refresh
    \/ \E p \in {"Dashboard", "Job Tracker", "Company Tracker"} : Navigate(p)
    \/ /\ page = "Job Tracker"
       /\ \E title \in JobTitles \cup {""}, choice \in AddJobCompanyNames \cup {SelectCompany},
             typed \in AddJobCompanyNames \cup {""}, f \in JobInputs,
             cFail, qFail, jFail \in BOOLEAN :
            SubmitAddJob(title, choice, typed, f, cFail, qFail, jFail)
       /\ BoundedBy(MaxAddJobRows)
    \/ /\ page = "Company Tracker"
       /\ \E name \in AddJobCompanyNames \cup {""}, f \in CompanyInputs, fail \in BOOLEAN :
            SubmitAddCompany(name, f, fail)
       /\ BoundedBy(MaxAddJobRows)

SpecAddJob == Init /\ [][NextAddJob]_vars

\* A session that adds Jobs (with a listed or a typed company) and Tasks,
\* deletes nothing, and submits edit forms as they were drawn.
MaxUnchangedRows == 4

NextUnchanged ==
    \/ Refresh
    \/ \E p \in {"Job Tracker", "Task Manager"} : Navigate(p)
    \/ \E k \in {"job", "task"}, opt \in screen.options \cup {Placeholder} :
            SelectRecord(k, opt)
    \/ /\ page = "Job Tracker"
       /\ \E choice \in AddJobCompanyNames \cup {SelectCompany},
             typed \in AddJobCompanyNames \cup {""}, f \in JobInputs :
            SubmitAddJob("Dev", choice, typed, f, FALSE, FALSE, FALSE)
       /\ BoundedBy(MaxUnchangedRows)
    \/ /\ page = "Task Manager"
       /\ \E links \in LinkInputs, f \in TaskInputs :
            SubmitAddTask("Call", links, f, FALSE)
       /\ BoundedBy(MaxUnchangedRows)
    \/ \E k \in {"job", "task"} : SubmitUnchanged(k)

SpecUnchanged == Init /\ [][NextUnchanged]_vars

\* The option maps over rows of any name: the name fields are free text, so a
\* company, a job or a recruiter can be named like the placeholder of its
\* selectbox.
MaxOptionRows == 3

NextOptions ==
    \/ Refresh
    \/ \E p \in page_options \ {"Task Manager"} : Navigate(p)
    \/ /\ page = "Company Tracker"
       /\ \E name \in CompanyNames \cup {SelectCompany}, f \in CompanyInputs :
            SubmitAddCompany(name, f, FALSE)
       /\ BoundedBy(MaxOptionRows)
    \/ /\ page = "Recruiter Tracker"
       /\ \E name \in RecruiterNames \cup {SelectRecruiter}, f \in RecruiterInputs :
            SubmitAddRecruiter(name, NoAgency, f, FALSE)
       /\ BoundedBy(MaxOptionRows)
    \/ /\ page = "Job Tracker"
       /\ \E title \in JobTitles \cup {SelectJob}, choice \in CompanyChoices,
             typed \in {"", SelectCompany}, f \in JobInputs :
            SubmitAddJob(title, choice, typed, f, FALSE, FALSE, FALSE)
       /\ BoundedBy(MaxOptionRows)

SpecOptions == Init /\ [][NextOptions]_vars

\* The session with runs in which the read of the selected record fails.
NextLost ==
    \/ Next
    \/ \E k \in Kinds : RunLost(k)

SpecLost == Init /\ [][NextLost]_vars

\* The Task Manager forms with every option of the priority selector.
MaxTaskRows == 2

TaskPriorityInputs ==
    [due_date : {None}, status : {"Open"}, priority : Range(task_priority_options),
     notes : {""}]

NoLinks == [job |-> SelectJob, recruiter |-> SelectRecruiter, company |-> SelectCompany]

NextTasks ==
    \/ \E p \in {"Dashboard", "Task Manager"} : Navigate(p)
    \/ \E opt \in screen.options \cup {Placeholder} : SelectRecord("task", opt)
    \/ /\ page = "Task Manager"
       /\ \E desc \in TaskDescriptions \cup {""}, f \in TaskPriorityInputs, fail \in BOOLEAN :
            SubmitAddTask(desc, NoLinks, f, fail)
       /\ BoundedBy(MaxTaskRows)
    \/ /\ page = "Task Manager"
       /\ \E desc \in TaskDescriptions \cup {""}, f \in TaskPriorityInputs, fail \in BOOLEAN :
            SubmitUpdateTask(desc, NoLinks, f, fail)

SpecTasks == Init /\ [][NextTasks]_vars

\* The Dashboard queries over stored jobs and tasks.  The tables are filled
\* through the insert functions: one Company and one Recruiter, then jobs of
\* any status or tasks of any status, due date and priority.
RECURSIVE jobs_added(_, _)
jobs_added(d, statuses) ==
    IF statuses = <<>> THEN d
    ELSE jobs_added(add_new_job(d, "Dev", 1, "", Head(statuses), "", "", None, FALSE).db,
                    Tail(statuses))

RECURSIVE tasks_added(_, _)
tasks_added(d, shapes) ==
    IF shapes = <<>> THEN d
    ELSE tasks_added(add_new_task(d, "Call", Head(shapes).due_date, Head(shapes).status,
                                  Head(shapes).priority, "", None, None, None, FALSE).db,
                     Tail(shapes))

TaskShapes ==
    [status : Range(task_status_options), due_date : {None, 1}, priority : {NULL, "High"}]

QueryBaseDb ==
    add_new_recruiter(add_new_company(EmptyDb, "Acme", "", "", "", "", FALSE).db,
                      "Rae", None, "", "", None, FALSE).db

QueryDbs ==
    UNION {{jobs_added(QueryBaseDb, f) : f \in [1..n -> Range(job_status_options)]}
             \cup {tasks_added(QueryBaseDb, f) : f \in [1..n -> TaskShapes]}
           : n \in 0..MaxQueryRows}

InitQueries == \E d \in QueryDbs : InitWith(d)

\* app.py 314-321: a run of the script draws the Dashboard and makes the five
\* calls; connected: the connection object the functions test is not None.
DashboardRun(connected, fails) ==
    /\ page = "Dashboard"
    /\ last' = [NoLast EXCEPT !.op = "Dashboard",
                              !.dash = dashboard_pass(db, connected, fails)]
    /\ UNCHANGED <<db, page, sel_to_edit_delete, selected_id_for_edit,
                   confirm_delete_id, options_cache, screen>>

\* The queries that raise in one pass: none, one of them, or all.
FailChoices ==
    {{}, Range(dashboard_queries)} \cup {{n} : n \in Range(dashboard_queries)}

NextQueries ==
    \/ \E fails \in FailChoices : DashboardRun(TRUE, fails)
    \/ DashboardRun(FALSE, {})

SpecQueries == InitQueries /\ [][NextQueries]_vars

\* The upcoming-tasks query called with limits below and above the number of
\* open tasks.
MaxUpcomingRows == 3

UpcomingTaskShapes ==
    [status : {"Open", "Completed"}, due_date : {None, 1, 2}, priority : {NULL, "High", "Low"}]

InitUpcoming ==
    \E n \in 0..MaxUpcomingRows : \E f \in [1..n -> UpcomingTaskShapes] :
        InitWith(tasks_added(QueryBaseDb, f))

\* get_upcoming_tasks(conn, count): the call of app.py 321 with any limit.
UpcomingQuery(count) ==
    /\ page = "Dashboard"
    /\ last' = [NoLast EXCEPT !.op = "UpcomingQuery", !.id = count,
                              !.dash = get_upcoming_tasks(db, count, TRUE, FALSE).value]
    /\ UNCHANGED <<db, page, sel_to_edit_delete, selected_id_for_edit,
                   confirm_delete_id, options_cache, screen>>

NextUpcoming == \E count \in 1..MaxUpcomingRows : UpcomingQuery(count)

SpecUpcoming == InitUpcoming /\ [][NextUpcoming]_vars

\* The edit forms over rows whose status or priority another client of the
\* database may have written outside the vocabulary of the selectors.
MaxSelectorRows == 2

SelectorTaskShapes ==
    [status : Range(task_status_options) \cup {"Archived"}, due_date : {None},
     priority : {NULL, "Low", "High", "Urgent"}]

SelectorDbs ==
    UNION {{jobs_added(QueryBaseDb, f) :
                f \in [1..n -> Range(job_status_options) \cup {"Archived", "rejected"}]}
             \cup {tasks_added(QueryBaseDb, f) : f \in [1..n -> SelectorTaskShapes]}
           : n \in 0..MaxSelectorRows}

InitSelectors == \E d \in SelectorDbs : InitWith(d)

NextSelectors ==
    \/ \E p \in {"Dashboard", "Job Tracker", "Task Manager"} : Navigate(p)
    \/ \E k \in {"job", "task"}, opt \in screen.options \cup {Placeholder} :
            SelectRecord(k, opt)

SpecSelectors == InitSelectors /\ [][NextSelectors]_vars

\* The store functions called with payloads of every shape: every field
\* filled, every optional field empty, a required field empty.
MaxStoreRows == 2

Payloads(k) ==
    CASE k = "company" ->
            {[company_name |-> n, sector |-> o, website |-> o, notes |-> o, source |-> o] :
                n \in {"Acme", ""}, o \in {"x", ""}}
      [] k = "job" ->
            {[job_title |-> "Dev", company_id |-> 1, location |-> "x", status |-> "Applied",
              job_url |-> "x", notes |-> "x", date_found |-> 1],
             [job_title |-> "Ops", company_id |-> 2, location |-> "", status |-> "Rejected",
              job_url |-> "", notes |-> "", date_found |-> None],
             [job_title |-> "", company_id |-> 1, location |-> "", status |-> "Applied",
              job_url |-> "", notes |-> "", date_found |-> None],
             [job_title |-> "Dev", company_id |-> None, location |-> "", status |-> "Applied",
              job_url |-> "", notes |-> "", date_found |-> None],
             [job_title |-> "Dev", company_id |-> 1, location |-> "", status |-> "",
              job_url |-> "", notes |-> "", date_found |-> None]}
      [] k = "recruiter" ->
            {[name |-> "Rae", agency_company_id |-> 1, contact_info |-> "x", notes |-> "x",
              first_contact_date |-> 1],
             [name |-> "Rae", agency_company_id |-> None, contact_info |-> "", notes |-> "",
              first_contact_date |-> None],
             [name |-> "", agency_company_id |-> None, contact_info |-> "", notes |-> "",
              first_contact_date |-> None]}
      [] k = "task" ->
            {[task_description |-> "Call", due_date |-> 1, status |-> "Completed",
              priority |-> "High", notes |-> "x", job_id |-> 1, recruiter_id |-> 1,
              company_id |-> 1],
             [task_description |-> "Mail", due_date |-> None, status |-> "Open",
              priority |-> NULL, notes |-> "", job_id |-> None, recruiter_id |-> None,
              company_id |-> None],
             [task_description |-> "", due_date |-> None, status |-> "Open",
              priority |-> NULL, notes |-> "", job_id |-> None, recruiter_id |-> None,
              company_id |-> None],
             [task_description |-> "Call", due_date |-> None, status |-> "",
              priority |-> NULL, notes |-> "", job_id |-> None, recruiter_id |-> None,
              company_id |-> None]}

\* The ids the Edit/Delete selectbox of kind k lists (get_all_*).
listed_ids(d, k) == {o.id : o \in Options(d, k)}

\* What one call of a store function did, and what the reads that follow it
\* return for the record.
StoreStep(op, k, id, p, fail, res) ==
    /\ db' = res.db
    /\ last' = [NoLast EXCEPT !.op = op, !.kind = k, !.id = id, !.acted = TRUE,
                              !.ok = res.ok, !.stmts = res.stmts,
                              !.commits = res.commits, !.msgs = {res.err} \ {""},
                              !.faults = IF fail THEN {"write"} ELSE {},
                              !.payload = p,
                              !.had = get_record(db, k, id),
                              !.got = get_record(res.db, k, id),
                              !.listed = listed_ids(res.db, k)]
    /\ UNCHANGED <<page, sel_to_edit_delete, selected_id_for_edit, confirm_delete_id,
                   options_cache, screen>>

\* add_new_company / add_new_job / add_new_recruiter / add_new_task, then a
\* read of the row with the serial the insert took.
StoreInsert(k, p, fail) ==
    StoreStep("StoreInsert", k, db.seq[k] + 1, p, fail, insert_record(db, k, p, fail))

\* update_job_details / update_task_details and the inline UPDATE statements.
StoreUpdate(k, id, p, fail) ==
    StoreStep("StoreUpdate", k, id, p, fail, update_record(db, k, id, p, fail))

\* delete_job_record / delete_task_record and the inline DELETE statements.
StoreDelete(k, id, fail) ==
    StoreStep("StoreDelete", k, id, <<>>, fail, delete_record(db, k, id, fail))

NextStore ==
    \/ \E k \in Kinds : \E p \in Payloads(k), fail \in BOOLEAN :
            StoreInsert(k, p, fail) /\ Inserted(db') <= MaxStoreRows
    \/ \E k \in Kinds, id \in 1..MaxStoreRows : \E p \in Payloads(k), fail \in BOOLEAN :
            StoreUpdate(k, id, p, fail)
    \/ \E k \in Kinds, id \in 1..MaxStoreRows, fail \in BOOLEAN :
            StoreDelete(k, id, fail)

SpecStore == Init /\ [][NextStore]_vars

\* ------------------------------------------------------ delete confirmation
\* C1 (Spec): for two distinct records A and B of one kind, after a delete
\* request on A and then one on B with no confirm in between, A is still
\* stored and B is the pending record; a cancel on B that follows leaves A and
\* B stored.  last.displaced is A, the pending id that the request on B
\* (last.id) replaced.
C1_RequestThenRequest ==
    \A k \in Kinds :
        /\ (last.op = "RequestDelete" /\ last.kind = k /\ last.acted
                /\ last.displaced # None)
              => /\ last.displaced \in Ids(db, k)
                 /\ last.id \in Ids(db, k)
                 /\ last.displaced # last.id
                 /\ confirm_delete_id[k] = last.id
        /\ (last.op = "CancelDelete" /\ last.kind = k /\ last.acted
                /\ last.displaced # None)
              => {last.displaced, last.id} \subseteq Ids(db, k)

\* Request on A, request on B, cancel on B have happened, in this order.
C1_Witness ==
    /\ last.op = "CancelDelete"
    /\ last.acted
    /\ last.displaced # None
    /\ last.displaced # last.id

\* C2 (Spec): in every step, a row of any kind that leaves its table leaves it
\* by a confirm click on that row's id, taken while that id was the pending id
\* of its kind; no other step removes a row.
C2_RemovedOnlyByConfirm ==
    [][\A k \in Kinds : \A id \in Ids(db, k) \ Ids(db', k) :
            /\ last'.op = "ConfirmDelete"
            /\ last'.kind = k
            /\ last'.id = id
            /\ last'.acted
            /\ confirm_delete_id[k] = id]_vars

\* A confirmed delete has removed one row and left another stored.
C2_Witness ==
    /\ last.op = "ConfirmDelete"
    /\ last.ok
    /\ last.id \notin Ids(db, last.kind)
    /\ \E k \in Kinds : Ids(db, k) # {}

\* C3 (Spec), as the claim states it: at most one record, of whatever kind, is
\* pending at any time.
C3_OnePendingOverall ==
    Cardinality({k \in Kinds : confirm_delete_id[k] # None}) <= 1

\* C4 (Spec): when confirm is pressed for the pending record and the delete
\* succeeds, the record is no longer stored, the pending id of its kind is
\* None and the selected-for-edit id of its kind is not the deleted id.
C4_ConfirmedDelete ==
    \A k \in Kinds :
        (last.op = "ConfirmDelete" /\ last.kind = k /\ last.ok)
            => /\ last.id \notin Ids(db, k)
               /\ confirm_delete_id[k] = None
               /\ selected_id_for_edit[k] # last.id

\* A delete was confirmed and succeeded, on the last row of its table (the
\* re-run then draws no selectbox that would reset the selected id).
C4_Witness ==
    /\ last.op = "ConfirmDelete"
    /\ last.ok
    /\ DeletedMsg(last.kind) \in last.msgs
    /\ Table(db, last.kind) = {}

\* C5 (Spec): a cancel click on the pending record sets the pending id of its
\* kind to None and leaves every row of the four tables as it was.
C5_CancelKeepsRows ==
    [][\A k \in Kinds :
            (last'.op = "CancelDelete" /\ last'.kind = k /\ last'.acted)
                => /\ confirm_delete_id[k] = last'.id
                   /\ confirm_delete_id'[k] = None
                   /\ \A k2 \in Kinds : Table(db', k2) = Table(db, k2)]_vars

\* A pending delete was cancelled; its record is stored.
C5_Witness ==
    /\ last.op = "CancelDelete"
    /\ last.acted
    /\ last.id \in Ids(db, last.kind)
    /\ confirm_delete_id[last.kind] = None

\* C6 (Spec), as the claim states it: once the session has left a pending
\* record (another page, another record, or none selected), confirm is not
\* offered for it again until a new delete request: a run offers confirm only
\* for the record the run before already offered it for, or right after a
\* delete request.
C6_LeavingCancels ==
    [][\A k \in Kinds :
            (page' = PageOf(k) /\ screen'.confirm)
                => \/ last'.op = "RequestDelete"
                   \/ page = PageOf(k) /\ screen.confirm /\ screen.form = screen'.form]_vars

\* C7 (SpecMulti), as the claim states it: a confirm click on a pending record
\* that is no longer stored is reported, not as a delete that succeeded, and
\* the pending id of its kind returns to None.
C7_ConfirmOnMissing ==
    [][\A k \in Kinds :
            (last'.op = "ConfirmDelete" /\ last'.kind = k /\ last'.id \notin Ids(db, k))
                => /\ last'.msgs # {}
                   /\ DeletedMsg(k) \notin last'.msgs
                   /\ confirm_delete_id'[k] = None]_vars

\* ------------------------------------------------------------- Add New Job
\* C8 (SpecAddJob): an Add-Job submission with no company selected and none
\* typed is rejected before any write: no statement is executed, the error is
\* shown, and the jobs and companies tables hold the rows they held before.
C8_NoCompanyNoWrite ==
    [][(last'.op = "SubmitAddJob" /\ last'.choice = SelectCompany /\ last'.typed = "")
            => /\ db'.jobs = db.jobs
               /\ db'.companies = db.companies
               /\ last'.stmts = 0
               /\ ~last'.ok
               /\ "Please select or type a company." \in last'.msgs]_vars

\* Such a submission was made, with a title, while companies were on offer.
C8_Witness ==
    /\ last.op = "SubmitAddJob"
    /\ last.choice = SelectCompany
    /\ last.typed = ""
    /\ last.text # ""
    /\ actual_names(options_cache.company) # {}
    /\ db.companies # {}

\* C9 (SpecAddJob): a successful Add-Job submission with a typed company name
\* adds exactly one Company row, of that name, and exactly one Job row, whose
\* company_id is the new Company's id; this holds as well when a Company of
\* that name is already stored (the repeated submission), so that the second
\* Job references the second Company.
C9_TypedCompany ==
    [][(last'.op = "SubmitAddJob" /\ last'.typed # "" /\ last'.ok)
            => LET newC == db'.companies \ db.companies
                   newJ == db'.jobs \ db.jobs
               IN /\ db.companies \subseteq db'.companies
                  /\ db.jobs \subseteq db'.jobs
                  /\ Cardinality(newC) = 1
                  /\ Cardinality(newJ) = 1
                  /\ \A c \in newC, j \in newJ :
                        /\ c.company_name = last'.typed
                        /\ c.company_id \notin Ids(db, "company")
                        /\ j.company_id = c.company_id
                        /\ j.job_id \notin Ids(db, "job")]_vars

\* The submission was repeated with the same name: two Companies of that name
\* are stored, each referenced by a Job, the newest Job by the newest Company.
C9_Witness ==
    /\ last.op = "SubmitAddJob"
    /\ last.typed # ""
    /\ last.ok
    /\ LET same == {c \in db.companies : c.company_name = last.typed}
       IN /\ Cardinality(same) = 2
          /\ \A c \in same : \E j \in db.jobs : j.company_id = c.company_id
          /\ \E j \in db.jobs :
                /\ j.job_id = Max(Ids(db, "job"))
                /\ j.company_id = Max({c.company_id : c \in same})

\* C10 (SpecAddJob), as the claim states it: in the Add-Job flow with a typed
\* company name, when the Company insert or the re-query of its id fails, no
\* Job row is added and no Company row added by the submission remains.
C10_NoPartialEffect ==
    [][(last'.op = "SubmitAddJob" /\ last'.typed # ""
            /\ last'.faults \cap {"company insert", "re-query"} # {})
            => /\ db'.jobs = db.jobs
               /\ db'.companies = db.companies]_vars

\* ---------------------------------------------------- aggregation queries
\* C11 (SpecQueries), as the claim states it: for every content of the jobs
\* table, the status-count query returns exactly one entry for each of Not
\* Applied, Applied, Interviewing, Rejected and Offer, whose value is the
\* number of jobs of that status, 0 for a status no job has.
C11_StatusCounts ==
    (last.op = "Dashboard" /\ last.dash.connected
            /\ "job_status_counts" \notin last.dash.fails)
        => LET c == last.dash.values["job_status_counts"]
           IN /\ DOMAIN c = Range(job_status_options)
              /\ \A st_val \in DOMAIN c :
                    c[st_val] = Cardinality({j \in db.jobs : j.status = st_val})

\* C12 (SpecQueries): whatever their due date, priority and creation time, no
\* task of status Completed or Cancelled is among the rows the upcoming-tasks
\* query returns; every row it returns is a stored task that is neither.
C12_NoClosedTask ==
    last.op = "Dashboard"
        => LET shown == last.dash.values["upcoming_tasks"]
           IN \A i \in DOMAIN shown :
                /\ shown[i].status \notin {"Completed", "Cancelled"}
                /\ \E t \in db.tasks :
                     /\ t.task_id = shown[i].task_id
                     /\ t.status = shown[i].status

\* The query ran over a closed task that is due and of high priority, stored
\* before an open task with neither, and returned the open one.
C12_Witness ==
    /\ last.op = "Dashboard"
    /\ last.dash.connected
    /\ last.dash.fails = {}
    /\ Len(last.dash.values["upcoming_tasks"]) = 1
    /\ \E t, u \in db.tasks :
         /\ t.status \in {"Completed", "Cancelled"}
         /\ t.due_date # None
         /\ t.priority = "High"
         /\ u.status = "Open"
         /\ u.due_date = None
         /\ u.priority = NULL
         /\ t.created_at < u.created_at

\* The empty result of query n: 0, counts that are all zero, an empty list.
EmptyResult(n, v) ==
    CASE n = "total_jobs" -> v = 0
      [] n = "job_status_counts" -> \A st_val \in DOMAIN v : v[st_val] = 0
      [] OTHER -> v = <<>>

\* C20 (SpecQueries): in a Dashboard pass no aggregation query raises and
\* all five are called, whichever of them fail; a query called without a
\* connection, or whose statement raises, returns its empty result, and a
\* query that raises shows its error; a query that does not fail returns
\* its result over the stored rows.
C20_QueriesDegrade ==
    last.op = "Dashboard"
        => /\ ~last.dash.raised
           /\ last.dash.called = Range(dashboard_queries)
           /\ \A n \in last.dash.called :
                (~last.dash.connected \/ n \in last.dash.fails)
                    => EmptyResult(n, last.dash.values[n])
           /\ Cardinality(last.dash.errors)
                = IF last.dash.connected THEN Cardinality(last.dash.fails) ELSE 0
           /\ (last.dash.connected /\ "total_jobs" \notin last.dash.fails)
                => last.dash.values["total_jobs"] = Cardinality(db.jobs)
           /\ (last.dash.connected /\ "recent_companies" \notin last.dash.fails)
                => Len(last.dash.values["recent_companies"]) = Cardinality(db.companies)

\* The first query of the pass raised over stored jobs: it returned 0, and
\* the status counts and the recent companies that follow it were computed.
C20_Witness ==
    /\ last.op = "Dashboard"
    /\ last.dash.connected
    /\ last.dash.fails = {"total_jobs"}
    /\ db.jobs # {}
    /\ last.dash.values["total_jobs"] = 0
    /\ \E st_val \in DOMAIN last.dash.values["job_status_counts"] :
            last.dash.values["job_status_counts"][st_val] > 0
    /\ Len(last.dash.values["recent_companies"]) = 1
    /\ "DB Error (total_jobs)" \in last.dash.errors

C13_InsertThenGet ==
    [][(last'.op = "StoreInsert" /\ last'.ok)
            => /\ last'.got.found
               /\ \A f \in DOMAIN last'.payload : last'.got.row[f] = last'.payload[f]
               /\ RowId(last'.kind, last'.got.row) = last'.id
               /\ last'.id \notin Ids(db, last'.kind)]_vars

\* Rows of two kinds were inserted, the last a task with every field filled,
\* after a payload with every optional field empty.
C13_Witness ==
    /\ last.op = "StoreInsert"
    /\ last.ok
    /\ last.kind = "task"
    /\ last.payload.due_date # None
    /\ last.payload.notes # ""
    /\ \E c \in db.companies : c.sector = "" /\ c.notes = ""

\* C14 (SpecStore): a successful update of a stored record followed by the
\* read of the record returns a row in which every editable column has the
\* value supplied to the update, the columns supplied as empty or None
\* included; the id and the creation time are the row's own.  (The payload
\* holds every editable column; an update whose target is not stored is the
\* subject of another claim.)
C14_UpdateThenGet ==
    [][(last'.op = "StoreUpdate" /\ last'.ok /\ last'.had.found)
            => /\ last'.got.found
               /\ \A f \in DOMAIN last'.payload : last'.got.row[f] = last'.payload[f]
               /\ RowId(last'.kind, last'.got.row) = last'.id
               /\ last'.got.row.created_at = last'.had.row.created_at
               /\ DOMAIN last'.got.row = DOMAIN last'.had.row]_vars

\* A task stored with every field filled was updated with every optional
\* field empty, and reads back empty.
C14_Witness ==
    /\ last.op = "StoreUpdate"
    /\ last.ok
    /\ last.kind = "task"
    /\ last.had.found
    /\ last.had.row.due_date # None
    /\ last.had.row.notes # ""
    /\ last.had.row.job_id # None
    /\ last.payload.due_date = None
    /\ last.payload.notes = ""
    /\ last.payload.job_id = None
    /\ last.got.found
    /\ last.got.row.due_date = None

\* C15 (SpecStore): right after a successful delete the read of the deleted
\* id finds no row and the list of its kind does not hold the id; and an id
\* that was given out and is not stored stays so through every later step,
\* inserts included (an insert takes the next serial, never a used one).
C15_DeletedStaysAbsent ==
    [][/\ (last'.op = "StoreDelete" /\ last'.ok)
            => /\ ~last'.got.found
               /\ last'.id \notin last'.listed
               /\ ~get_record(db', last'.kind, last'.id).found
       /\ \A k \in Kinds : \A id \in 1..db.seq[k] :
            ~get_record(db, k, id).found
                => /\ ~get_record(db', k, id).found
                   /\ id \notin listed_ids(db', k)]_vars

\* Job 1 was stored and deleted, then job 2 was inserted: job 1 is still
\* absent and the list holds job 2 only.
C15_Witness ==
    /\ last.op = "StoreInsert"
    /\ last.ok
    /\ last.kind = "job"
    /\ last.id = 2
    /\ db.seq["job"] = 2
    /\ ~get_record(db, "job", 1).found
    /\ last.listed = {2}

\* C16 (SpecStore): for every insert, update and delete of every kind, when
\* the statement or the commit raises, nothing is committed, the call
\* returns False with an error shown, and each of the four tables holds the
\* rows, with the field values, it held before the call.
C16_FailureRollsBack ==
    [][(last'.op \in {"StoreInsert", "StoreUpdate", "StoreDelete"}
            /\ "write" \in last'.faults)
            => /\ ~last'.ok
               /\ last'.commits = 0
               /\ last'.msgs # {}
               /\ \A k \in Kinds : Table(db', k) = Table(db, k)
               /\ last'.got = last'.had]_vars

\* The statement of an update that would have changed a stored company
\* raised.
C16_Witness ==
    /\ last.op = "StoreUpdate"
    /\ last.kind = "company"
    /\ "write" \in last.faults
    /\ last.stmts = 1
    /\ last.had.found
    /\ \E f \in DOMAIN last.payload : last.had.row[f] # last.payload[f]

\* ------------------------------------------------------------- validation
\* C17 (SpecAddJob), as the claim states it: a form submission in which a
\* required field is empty (here the title of the job, or the name of the
\* company) executes no INSERT, UPDATE or DELETE and leaves the four tables
\* unchanged.
C17_InvalidNoQuery ==
    [][(last'.op \in {"SubmitAddJob", "SubmitAddCompany"} /\ last'.text = "")
            => /\ last'.stmts = 0
               /\ last'.commits = 0
               /\ \A k \in Kinds : Table(db', k) = Table(db, k)]_vars

\* C18 (Spec), as the claim states it: every Job row that a step writes (a
\* row inserted, or a row an update changed) carries a company_id that is
\* not None and is the id of a Company stored when the step has written it.
C18_JobCompanyExists ==
    [][\A j \in db'.jobs :
            j \notin db.jobs
                => /\ j.company_id # None
                   /\ j.company_id \in Ids(db', "company")]_vars

\* ------------------------------------------------------ reference resolver
\* C19 (SpecOptions), as the claim states it: whatever the companies, jobs and
\* recruiters tables hold, a row named like the placeholder text included,
\* each of the three name-to-id maps has the placeholder key, the key maps to
\* None, and so no row's id is reached through it.
C19_PlaceholderReserved ==
    /\ SelectCompany \in DOMAIN options_cache.company
    /\ options_cache.company[SelectCompany] = None
    /\ SelectJob \in DOMAIN options_cache.job
    /\ options_cache.job[SelectJob] = None
    /\ SelectRecruiter \in DOMAIN options_cache.recruiter
    /\ options_cache.recruiter[SelectRecruiter] = None

\* ------------------------------------------------------------- scheduling
\* C21 (SpecAddJob), as the claim states it: one user action (a form submit,
\* a navigation, a refresh) commits at most one write transaction.
C21_OneCommitPerAction ==
    last.commits <= 1

C23_UpdateOnMissing ==
    [][(last'.op \in {"SubmitUpdateJob", "SubmitUpdateRecruiter", "SubmitUpdateCompany",
                      "SubmitUpdateTask"}
            /\ last'.id \notin Ids(db, last'.kind))
            => /\ \A k \in Kinds : Table(db', k) = Table(db, k)
               /\ ~last'.ok
               /\ last'.msgs # {}]_vars

\* C24 (Spec), as the claim states it: a row written by a form submission
\* that resolved a selected name to a foreign key (the company of a job, the
\* agency of a recruiter, the job, recruiter and company of a task) holds the
\* id of a row stored in the referenced table when the submission has
\* written it, and for the company of a job and the agency of a recruiter
\* that row's name is the selected name.
C24_ResolvedIdExists ==
    [][/\ (last'.op \in {"SubmitAddJob", "SubmitUpdateJob"} /\ last'.ok /\ last'.typed = "")
            => \A j \in db'.jobs \ db.jobs :
                 \E c \in db'.companies :
                    c.company_id = j.company_id /\ c.company_name = last'.choice
       /\ (last'.op \in {"SubmitAddRecruiter", "SubmitUpdateRecruiter"} /\ last'.ok
                /\ last'.choice \notin {NoAgency, SelectCompany, ""})
            => \A r \in db'.recruiters \ db.recruiters :
                 \E c \in db'.companies :
                    c.company_id = r.agency_company_id /\ c.company_name = last'.choice
       /\ (last'.op \in {"SubmitAddTask", "SubmitUpdateTask"} /\ last'.ok)
            => \A t \in db'.tasks \ db.tasks :
                 /\ t.job_id # None => t.job_id \in Ids(db', "job")
                 /\ t.recruiter_id # None => t.recruiter_id \in Ids(db', "recruiter")
                 /\ t.company_id # None => t.company_id \in Ids(db', "company")]_vars

\* C25 (SpecSelectors): in the edit form drawn for a stored Job or Task, the
\* status selector (and for a Task the priority selector) stands on the
\* stored value when the value is in the selector's vocabulary, and on the
\* first option of its list when it is not.
C25_SelectorFallback ==
    /\ (page = "Job Tracker" /\ screen.form # None)
        => LET row == get_job_details(db, screen.form).row
               form == job_edit_form(row, options_cache.company)
           IN form.f.status = IF row.status \in Range(job_status_options)
                                 THEN row.status ELSE job_status_options[1]
    /\ (page = "Task Manager" /\ screen.form # None)
        => LET row == get_task_details(db, screen.form).row
               form == task_edit_form(row, options_cache)
           IN /\ form.f.status = IF row.status \in Range(task_status_options)
                                    THEN row.status ELSE task_status_options[1]
              /\ form.f.priority = IF row.priority \in Range(task_priority_options)
                                      THEN row.priority ELSE task_priority_options[1]

\* The form of a task is drawn whose status is not in the vocabulary and
\* whose priority is.
C25_Witness ==
    /\ page = "Task Manager"
    /\ screen.form # None
    /\ LET row == get_task_details(db, screen.form).row
       IN /\ row.status = "Archived"
          /\ row.priority = "High"
          /\ task_edit_form(row, options_cache).f.status = "Open"
          /\ task_edit_form(row, options_cache).f.priority = "High"

\* ------------------------------------------------------------ Task Manager
\* C26 (SpecTasks): after every Add-Task and Update-Task submission each
\* stored task has priority NULL, Low, Medium or High, never the text "---";
\* the task a successful submission wrote with "---" selected has NULL, and
\* with another option selected has that option.
C26_PriorityNeverPlaceholder ==
    [][/\ \A t \in db'.tasks : t.priority \in {NULL, "Low", "Medium", "High"}
       /\ (last'.op \in {"SubmitAddTask", "SubmitUpdateTask"} /\ last'.ok)
            => \A t \in db'.tasks :
                 (t \notin db.tasks \/ t.task_id = last'.id)
                    => t.priority = IF last'.choice = "---" THEN NULL ELSE last'.choice]_vars

\* A task stored with priority High was updated with "---" selected, next to
\* a task that keeps a priority.
C26_Witness ==
    /\ last.op = "SubmitUpdateTask"
    /\ last.ok
    /\ last.choice = "---"
    /\ \E t, u \in db.tasks :
         /\ t.task_id = last.id
         /\ t.priority = NULL
         /\ u.priority = "High"

\* ------------------------------------------------------------ frame effects
\* C28 (SpecStore): a successful delete of a Job removes the jobs row with
\* that id and nothing else: the other jobs rows and every companies,
\* recruiters and tasks row are the same, the tasks that reference the
\* deleted Job included.
C28_DeleteJobOnly ==
    [][(last'.op = "StoreDelete" /\ last'.kind = "job" /\ last'.ok)
            => /\ db'.jobs = {j \in db.jobs : j.job_id # last'.id}
               /\ db'.companies = db.companies
               /\ db'.recruiters = db.recruiters
               /\ db'.tasks = db.tasks]_vars

\* A stored Job was deleted and a Task that references it is stored.
C28_Witness ==
    /\ last.op = "StoreDelete"
    /\ last.kind = "job"
    /\ last.ok
    /\ last.had.found
    /\ ~last.got.found
    /\ \E t \in db.tasks : t.job_id = last.id

\* C29 (SpecUnchanged): an edit form of a stored Job or Task submitted with
\* the inputs as drawn leaves every table as it was, the company_id of the
\* Job and the job_id, recruiter_id and company_id of the Task included.
C29_UnchangedSubmitKeepsRow ==
    [][(last'.op = "SubmitUnchanged" /\ last'.acted)
            => /\ db'.jobs = db.jobs
               /\ db'.tasks = db.tasks
               /\ db'.companies = db.companies
               /\ db'.recruiters = db.recruiters]_vars

====
